---- MODULE Spec2Model ----
\* Verification model of the parallel backfill orchestrator:
\*   - the Squasher (orchestrator/squasher.go),
\*   - the work Plan (package work, known through its tests),
\*   - the Stages matrix (orchestrator/stage/stages.go).
EXTENDS Integers, Sequences, FiniteSets, TLC

\* ---------------------------------------------------------------- bounds

\* Highest block number of a run (the largest targetExclusiveBlock).
MaxBlock == 5

\* storeSaveInterval: blocks per segment.
SaveInterval == 2

\* Number of Squash calls in one run.
MaxSquashCalls == 4

\* Largest interval of the segmenters tried on their own.
MaxInterval == 3

\* Number of jobs in a list handed to prioritize.
MaxJobs == 3

\* A storage error or a cancellation hits one of the first MaxFaultAt operations of its kind
\* in a Squash call.
MaxFaultAt == 2

\* Storage errors and cancellations hit the first calls of a run only.
MaxFaultCalls == 2

\* ---------------------------------------------------------------- helpers

Min(a, b) == IF a < b THEN a ELSE b

\* block.Range: half-open [StartBlock, ExclusiveEndBlock).
NewRange(s, e) == [StartBlock |-> s, ExclusiveEndBlock |-> e]

\* Order of block.Ranges: by start, then by exclusive end.
RangeLess(a, b) ==
    \/ a.StartBlock < b.StartBlock
    \/ a.StartBlock = b.StartBlock /\ a.ExclusiveEndBlock < b.ExclusiveEndBlock

RECURSIVE SplitFrom(_, _, _)
SplitFrom(s, e, interval) ==
    IF s >= e THEN <<>>
    ELSE LET cut == Min(((s \div interval) + 1) * interval, e)
         IN  <<NewRange(s, cut)>> \o SplitFrom(cut, e, interval)

\* Range.Split: the range cut at the multiples of the interval.
Split(r, interval) == SplitFrom(r.StartBlock, r.ExclusiveEndBlock, interval)

\* One insertion step of the sort.
RECURSIVE InsertRange(_, _)
InsertRange(sorted, r) ==
    IF sorted = <<>> THEN <<r>>
    ELSE IF RangeLess(r, Head(sorted)) THEN <<r>> \o sorted
    ELSE <<Head(sorted)>> \o InsertRange(Tail(sorted), r)

\* sort.Sort(s.ranges)
RECURSIVE SortRanges(_)
SortRanges(rs) ==
    IF rs = <<>> THEN <<>>
    ELSE InsertRange(SortRanges(Tail(rs)), Head(rs))

\* ---------------------------------------------------------------- state

VARIABLES
    targetExclusiveBlock,  \* Squasher.targetExclusiveBlock
    info,                  \* per store, info.LastKVSavedBlock as NewSquasher read it
    squashables,           \* Squasher.squashables: name -> Squashable
    effects,               \* per store, what the Squashable did to the store, the storage and the notifier, in order
    calls,                 \* the number of Squash calls made so far
    notifier,              \* Squasher.notifier is set: NewSquasher was given WithNotifier
    ret,                   \* the last call and what it returned
    design,                \* which component the run exercises: "squasher", "plan" or "stages"
    plan,                  \* work.Plan: ModulesStateMap, upToBlock, waitingJobs, readyJobs, modulesReadyUpToBlock
    returned,              \* how many times NextJob has returned each job or unit
    segmenter,             \* Stages.segmenter: interval, initialBlock, exclusiveEndBlock
    stages,                \* Stages.stages: each stage's kind and segmenter
    segmentStates,         \* Stages.segmentStates[offsetSegment][stage]
    segmentOffset,         \* Stages.segmentOffset
    snapshots,             \* orchestrator.Snapshots of one store: Completes and Partials, each sorted
    pipeline,              \* pipeline.Pipeline: its stores, partialsWritten, and the trailer set on the stream
    graph,                 \* the ancestors of each module, as the function handed to ancestorsDepth
    inflight               \* the calls in progress: each worker's position inside Squash, and StoresReady's position in its loop

squasherVars == <<targetExclusiveBlock, info, squashables, effects, calls, notifier>>

planVars == <<plan, returned>>

stagesVars == <<segmenter, stages, segmentStates, segmentOffset>>

otherVars == <<snapshots, pipeline, graph, inflight>>

vars == <<targetExclusiveBlock, info, squashables, effects, calls, notifier, ret, design, plan, returned,
          segmenter, stages, segmentStates, segmentOffset, snapshots, pipeline, graph, inflight>>

\* Names of the stores the Squasher was built with.
StoreNames == {"A", "B"}

\* A module name that is in no registry.
UnknownName == "Z"

\* ---------------------------------------------------------------- Squasher

\* NewSquashable: builder is the end of the blocks the initial builder holds, its start being
\* the module's initial block.
NewSquashable(moduleInitialBlock, builder, next) ==
    [ ModuleInitialBlock     |-> moduleInitialBlock,
      StoreInitialBlock      |-> moduleInitialBlock,
      builder                |-> builder,
      ranges                 |-> <<>>,
      nextExpectedStartBlock |-> next,
      targetReached          |-> FALSE ]

\* NewSquasher seeding every Squashable with an empty store at the module's initial block.
NewSquasherEntryFromInitialBlock(moduleInitialBlock, lastKVSavedBlock) ==
    NewSquashable(moduleInitialBlock, moduleInitialBlock, moduleInitialBlock)

\* NewSquasher, for one builder: info.LastKVSavedBlock = 0 is read as no storage present and
\* the Squashable gets an empty clone of the builder; otherwise it gets the store loaded from
\* the complete snapshot [ModuleInitialBlock, LastKVSavedBlock).
NewSquasherEntry(moduleInitialBlock, lastKVSavedBlock) ==
    IF lastKVSavedBlock = 0
    THEN NewSquashable(moduleInitialBlock, moduleInitialBlock, moduleInitialBlock)
    ELSE NewSquashable(moduleInitialBlock, lastKVSavedBlock, lastKVSavedBlock)

\* Squashable.IsEmpty
IsEmpty(sq) == Len(sq.ranges) = 0

\* cumulateBoundedRange without the sort of the list.
cumulateBoundedRangeUnsorted(sq, blockRange) ==
    IF blockRange.ExclusiveEndBlock <= sq.StoreInitialBlock
    THEN sq
    ELSE [sq EXCEPT !.ranges = Append(sq.ranges, blockRange)]

\* Squashable.cumulateBoundedRange
cumulateBoundedRange(sq, blockRange) ==
    IF blockRange.ExclusiveEndBlock <= sq.StoreInitialBlock
    THEN sq
    ELSE [sq EXCEPT !.ranges = SortRanges(Append(sq.ranges, blockRange))]

\* No storage error and no cancellation during a call.
NoFault == [kind |-> "none", at |-> 0]

\* What can go wrong during a call: the context is cancelled, or builder.LoadFrom,
\* builder.Merge or builder.WriteState returns an error, at the at-th operation of that kind.
Faults ==
    { [kind |-> k, at |-> i] : k \in {"cancel", "LoadFrom", "Merge", "WriteState"}, i \in 1..MaxFaultAt }

\* The errors a call returns when storage failed or the context was cancelled.
StorageErrors == {"context canceled", "LoadFrom", "Merge", "WriteState"}

\* The operation of this kind that the call is about to do is the one that fails.
hit(st, kind) == st.fault.kind = kind /\ st.fault.at = 1

\* The operation of this kind went through.
pass(st, kind) ==
    IF st.fault.kind = kind THEN [st EXCEPT !.fault.at = st.fault.at - 1] ELSE st

\* The first loop of Squashable.squash without its test of the start block.
RECURSIVE cumulateAllUnchecked(_, _)
cumulateAllUnchecked(st, splits) ==
    IF splits = <<>> THEN st
    ELSE cumulateAllUnchecked([st EXCEPT !.sq = cumulateBoundedRange(st.sq, Head(splits))],
                              Tail(splits))

\* The first loop of Squashable.squash: st is [sq, fx, err, fault].
RECURSIVE cumulateAll(_, _)
cumulateAll(st, splits) ==
    IF splits = <<>> THEN st
    ELSE IF Head(splits).StartBlock < st.sq.ModuleInitialBlock
         THEN [st EXCEPT !.err = "prior_to_initial_block"]
         ELSE cumulateAll([st EXCEPT !.sq = cumulateBoundedRange(st.sq, Head(splits))],
                          Tail(splits))

\* The loop guard letting through a head that starts after the next expected block.
headIsNextOrLater(sq) ==
    /\ Len(sq.ranges) # 0
    /\ sq.nextExpectedStartBlock <= Head(sq.ranges).StartBlock

\* The loop guard letting through a head that starts before the next expected block.
headIsNextOrEarlier(sq) ==
    /\ Len(sq.ranges) # 0
    /\ sq.nextExpectedStartBlock >= Head(sq.ranges).StartBlock

\* The loop guard of mergeAvailablePartials: the head of the list is the next expected range.
headIsNext(sq) ==
    /\ Len(sq.ranges) # 0
    /\ sq.nextExpectedStartBlock = Head(sq.ranges).StartBlock

\* endsOnBoundary computed on the start of the range.
startsOnBoundary(r, interval) == r.StartBlock % interval = 0

\* endsOnBoundary
endsOnBoundary(r, interval) == r.ExclusiveEndBlock % interval = 0

\* The notification condition satisfied by every range up to the target.
reachesTargetOrLess(r, target) == r.ExclusiveEndBlock <= target

\* The notification condition at the end of one loop step.
reachesTarget(r, target) == r.ExclusiveEndBlock = target

\* One step of the loop of mergeAvailablePartials, for the head range: load, merge, advance
\* nextExpectedStartBlock, write or delete, pop, and notify at the target. An error of
\* LoadFrom or Merge returns before anything changed, an error of WriteState after
\* nextExpectedStartBlock was advanced and before the range is popped.
mergeHead(st, name, target) ==
    LET r  == Head(st.sq.ranges)
        e  == r.ExclusiveEndBlock
        s1 == pass(st, "LoadFrom")
        s2 == pass(s1, "Merge")
        s3 == IF endsOnBoundary(r, SaveInterval) THEN pass(s2, "WriteState") ELSE s2
        f1 == Append(st.fx, [op |-> "merge", rng |-> r])
        f2 == IF endsOnBoundary(r, SaveInterval)
              THEN Append(f1, [op |-> "WriteState", blk |-> e])
              ELSE Append(f1, [op |-> "DeletePartialFile", blk |-> e])
        f3 == IF reachesTarget(r, target) /\ st.notifier
              THEN Append(f2, [op |-> "Notify", blk |-> e])
              ELSE f2
    IN  IF hit(st, "LoadFrom") THEN [st EXCEPT !.err = "LoadFrom"]
        ELSE IF hit(s1, "Merge") THEN [s1 EXCEPT !.err = "Merge"]
        ELSE IF endsOnBoundary(r, SaveInterval) /\ hit(s2, "WriteState")
        THEN [s2 EXCEPT !.sq = [s2.sq EXCEPT !.nextExpectedStartBlock = e],
                        !.fx = f1,
                        !.err = "WriteState"]
        ELSE [s3 EXCEPT !.sq = [s3.sq EXCEPT !.nextExpectedStartBlock = e,
                                            !.ranges = Tail(s3.sq.ranges),
                                            !.targetReached = s3.sq.targetReached \/ reachesTarget(r, target)],
                        !.fx = f3]

\* mergeAvailablePartials looking at the context only after the head range was merged.
RECURSIVE mergeAvailablePartialsCancelAfterMerge(_, _, _)
mergeAvailablePartialsCancelAfterMerge(st, name, target) ==
    IF st.err # "nil" THEN st
    ELSE IF ~headIsNext(st.sq)
    THEN (IF hit(st, "cancel") THEN [st EXCEPT !.err = "context canceled"] ELSE pass(st, "cancel"))
    ELSE IF hit(st, "cancel")
    THEN [st EXCEPT !.sq = [st.sq EXCEPT !.nextExpectedStartBlock = Head(st.sq.ranges).ExclusiveEndBlock],
                    !.fx = Append(st.fx, [op |-> "merge", rng |-> Head(st.sq.ranges)]),
                    !.err = "context canceled"]
    ELSE mergeAvailablePartialsCancelAfterMerge(mergeHead(pass(st, "cancel"), name, target),
                                                name, target)

\* Squashable.mergeAvailablePartials
RECURSIVE mergeAvailablePartials(_, _, _)
mergeAvailablePartials(st, name, target) ==
    IF st.err # "nil" THEN st
    ELSE IF hit(st, "cancel") THEN [st EXCEPT !.err = "context canceled"]
    ELSE IF headIsNext(st.sq)
    THEN mergeAvailablePartials(mergeHead(pass(st, "cancel"), name, target), name, target)
    ELSE pass(st, "cancel")

\* The second loop of Squashable.squash: one mergeAvailablePartials per split range, until
\* one returns an error.
RECURSIVE mergeAll(_, _, _, _)
mergeAll(st, splits, name, target) ==
    IF splits = <<>> \/ st.err # "nil" THEN st
    ELSE mergeAll(mergeAvailablePartials(st, name, target), Tail(splits), name, target)

\* Squashable.squash, with the error or cancellation that hits the call, if any.
squashWith(sq, fx, name, blockRange, target, fault, notify) ==
    LET splits == Split(blockRange, SaveInterval)
        c      == cumulateAll([sq |-> sq, fx |-> fx, err |-> "nil", fault |-> fault,
                               notifier |-> notify], splits)
    IN  IF c.err # "nil" THEN c ELSE mergeAll(c, splits, name, target)

\* Squashable.squash, storage and context being fine.
squash(sq, fx, name, blockRange, target, notify) ==
    squashWith(sq, fx, name, blockRange, target, NoFault, notify)

\* builder.ModuleInitialBlock of the stores of the run: A starts on a segment boundary, B off one.
ModuleInitialBlock == [n \in StoreNames |-> IF n = "A" THEN 0 ELSE 1]

\* subrequestSplit: blocks per job, a multiple of the save interval.
SubrequestSplit == 2 * SaveInterval

\* The ranges a worker may report: a job's range starts on a segment boundary or at a
\* module's initial block, ends on a segment boundary or at the target, and lies inside one
\* subrequestSplit chunk.
RequestRanges(target) ==
    { r \in [StartBlock : 0..target, ExclusiveEndBlock : 0..target] :
        /\ r.StartBlock < r.ExclusiveEndBlock
        /\ r.StartBlock % SaveInterval = 0 \/ \E n \in StoreNames : r.StartBlock = ModuleInitialBlock[n]
        /\ r.ExclusiveEndBlock % SaveInterval = 0 \/ r.ExclusiveEndBlock = target
        /\ (r.ExclusiveEndBlock - 1) \div SubrequestSplit = r.StartBlock \div SubrequestSplit }

\* Squasher.Squash, with the error or cancellation that hits the call, if any.
SquashBody(moduleName, outgoingReqRange, fault) ==
    /\ design = "squasher"
    /\ calls' = calls + 1
    /\ IF moduleName \notin DOMAIN squashables
       THEN /\ ret' = [op |-> "Squash", mod |-> moduleName, rng |-> outgoingReqRange,
                       err |-> "not_found"]
            /\ UNCHANGED <<squashables, effects>>
       ELSE LET out == squashWith(squashables[moduleName], effects[moduleName],
                                  moduleName, outgoingReqRange, targetExclusiveBlock, fault, notifier)
            IN  /\ squashables' = [squashables EXCEPT ![moduleName] = out.sq]
                /\ effects' = [effects EXCEPT ![moduleName] = out.fx]
                /\ ret' = [op |-> "Squash", mod |-> moduleName, rng |-> outgoingReqRange,
                           err |-> out.err]
    /\ UNCHANGED <<targetExclusiveBlock, info, notifier, design, planVars, stagesVars, otherVars>>

\* Squasher.Squash as one of the MaxSquashCalls calls of a run.
SquashWith(moduleName, outgoingReqRange, fault) ==
    /\ calls < MaxSquashCalls
    /\ SquashBody(moduleName, outgoingReqRange, fault)

\* Squasher.Squash, storage and context being fine.
Squash(moduleName, outgoingReqRange) == SquashWith(moduleName, outgoingReqRange, NoFault)

\* The messages StoresReady collects when it only looks at targetReached.
storesReadyErrsTargetOnly ==
    { <<n, "target not reached">> : n \in { m \in DOMAIN squashables : ~squashables[m].targetReached } }

\* The messages StoresReady collects.
storesReadyErrs ==
    { <<n, "target not reached">> : n \in { m \in DOMAIN squashables : ~squashables[m].targetReached } }
    \cup
    { <<n, "missing ranges">> : n \in { m \in DOMAIN squashables : ~IsEmpty(squashables[m]) } }

\* Squasher.StoresReady
StoresReady ==
    /\ ret' = [op |-> "StoresReady", errs |-> storesReadyErrs]
    /\ UNCHANGED <<squasherVars, design, planVars, stagesVars, otherVars>>

\* info.LastKVSavedBlock as storage may report it: 0, or the end of a complete snapshot of
\* the store, a multiple of the save interval up to the target. Store B has no snapshot.
LastKVSavedBlocks(n, target) ==
    IF n = "A" THEN { b \in 0..target : b % SaveInterval = 0 } ELSE {0}

\* The record of what NextJob has returned, after one more return of x.
handOut(r, x) ==
    [ y \in DOMAIN r \cup {x} |-> IF y = x THEN (IF x \in DOMAIN r THEN r[x] + 1 ELSE 1) ELSE r[y] ]

\* A Plan with no module and no job.
NoPlan ==
    [ ModulesStateMap       |-> <<>>,
      upToBlock             |-> 0,
      waitingJobs           |-> <<>>,
      readyJobs             |-> <<>>,
      modulesReadyUpToBlock |-> <<>> ]

\* The run has no Snapshots and no Pipeline.
OthersUnused ==
    /\ snapshots = <<>>
    /\ pipeline = <<>>
    /\ graph = <<>>
    /\ inflight = <<>>

\* The run has no Plan.
PlanUnused ==
    /\ plan = NoPlan
    /\ returned = <<>>

\* The run has no Stages.
StagesUnused ==
    /\ segmenter = <<>>
    /\ stages = <<>>
    /\ segmentStates = <<>>
    /\ segmentOffset = 0

Init ==
    /\ design = "squasher"
    /\ PlanUnused
    /\ StagesUnused
    /\ OthersUnused
    /\ targetExclusiveBlock \in {MaxBlock - 1, MaxBlock}
    /\ info \in [StoreNames -> 0..MaxBlock]
    /\ \A n \in StoreNames : info[n] \in LastKVSavedBlocks(n, targetExclusiveBlock)
    /\ squashables = [n \in StoreNames |-> NewSquasherEntry(ModuleInitialBlock[n], info[n])]
    /\ effects = [n \in StoreNames |-> <<>>]
    /\ calls = 0
    /\ notifier \in BOOLEAN
    /\ ret = [op |-> "NewSquasher", err |-> "nil"]

SquashCall ==
    \E n \in StoreNames \cup {UnknownName}, r \in RequestRanges(targetExclusiveBlock) : Squash(n, r)

Next ==
    \/ SquashCall
    \/ StoresReady

Spec == Init /\ [][Next]_vars

\* A Squash call hit by a storage error or a cancellation: one of the first MaxFaultCalls
\* calls of the run.
SquashFaultCall ==
    /\ calls < MaxFaultCalls
    /\ \E n \in StoreNames, r \in RequestRanges(targetExclusiveBlock), f \in Faults :
          SquashWith(n, r, f)

NextFaults ==
    \/ SquashCall
    \/ SquashFaultCall
    \/ StoresReady

\* The Squasher with storage errors and cancellations.
SpecFaults == Init /\ [][NextFaults]_vars

\* ---------------------------------------------------------------- Squasher: concurrent calls

\* Squash calls in a run of concurrent workers.
MaxConcurrentCalls == 3

\* StoresReady calls in a run of concurrent workers.
MaxStoresReadyCalls == 1

\* The goroutines that report finished jobs through Squash.
Workers == {"w1", "w2"}

\* No call is in progress.
Idle == [squash |-> [w \in Workers |-> <<>>], reader |-> <<>>, polls |-> 0]

\* s.lock.Lock() returns only while no other goroutine is between Lock and Unlock.
lockFree == \A w \in Workers : inflight.squash[w] = <<>>

\* The orders in which a range over the map s.squashables may visit the stores.
IterationOrders ==
    { o \in [1..Cardinality(StoreNames) -> StoreNames] :
        \A i, j \in DOMAIN o : i # j => o[i] # o[j] }

\* The body of the loop of mergeAvailablePartials up to the write or delete of the file:
\* load, merge, advance nextExpectedStartBlock, write the state or delete the partial.
mergeRange(sq, fx) ==
    LET r  == Head(sq.ranges)
        e  == r.ExclusiveEndBlock
        f1 == Append(fx, [op |-> "merge", rng |-> r])
    IN  [ sq |-> [sq EXCEPT !.nextExpectedStartBlock = e],
          fx |-> IF endsOnBoundary(r, SaveInterval)
                 THEN Append(f1, [op |-> "WriteState", blk |-> e])
                 ELSE Append(f1, [op |-> "DeletePartialFile", blk |-> e]) ]

\* s.ranges = s.ranges[1:]
popRange(sq) == [sq EXCEPT !.ranges = Tail(sq.ranges)]

\* s.targetReached = true, and the notification when the Squasher has a notifier.
markTargetReached(sq, fx, r, notify) ==
    [ sq |-> [sq EXCEPT !.targetReached = TRUE],
      fx |-> IF notify THEN Append(fx, [op |-> "Notify", blk |-> r.ExclusiveEndBlock]) ELSE fx ]

\* Squasher.Squash up to the end of the first loop of Squashable.squash: the worker takes
\* the lock, looks the module up and cumulates the split ranges. A call that fails there
\* returns, releasing the lock.
SquashLock(w, moduleName, outgoingReqRange) ==
    /\ design = "concurrent"
    /\ calls < MaxConcurrentCalls
    /\ lockFree
    /\ calls' = calls + 1
    /\ IF moduleName \notin DOMAIN squashables
       THEN /\ ret' = [op |-> "Squash", mod |-> moduleName, rng |-> outgoingReqRange,
                       err |-> "not_found"]
            /\ UNCHANGED <<squashables, inflight>>
       ELSE LET splits == Split(outgoingReqRange, SaveInterval)
                c      == cumulateAll([sq |-> squashables[moduleName], fx |-> effects[moduleName],
                                       err |-> "nil", fault |-> NoFault,
                                       notifier |-> notifier], splits)
            IN  IF c.err # "nil"
                THEN /\ ret' = [op |-> "Squash", mod |-> moduleName, rng |-> outgoingReqRange,
                                err |-> c.err]
                     /\ UNCHANGED <<squashables, inflight>>
                ELSE /\ squashables' = [squashables EXCEPT ![moduleName] = c.sq]
                     /\ inflight' = [inflight EXCEPT !.squash[w] =
                                        << [ mod    |-> moduleName,
                                             rng    |-> outgoingReqRange,
                                             pc     |-> "loop",
                                             merged |-> <<>>,
                                             left   |-> Len(splits),
                                             before |-> [sq |-> squashables[moduleName],
                                                         fx |-> effects[moduleName]] ] >>]
                     /\ UNCHANGED ret
    /\ UNCHANGED <<targetExclusiveBlock, info, effects, notifier, design, planVars, stagesVars,
                   snapshots, pipeline, graph>>

\* One step of the worker inside the second loop of Squashable.squash. At "loop" the worker
\* is at the top of the loop of mergeAvailablePartials: a head that is the next expected
\* range is loaded, merged and written, any other ends this mergeAvailablePartials. At
\* "pop" the merged range leaves the list, at "reached" targetReached is set.
SquashStep(w) ==
    /\ design = "concurrent"
    /\ inflight.squash[w] # <<>>
    /\ LET at == inflight.squash[w][1]
           n  == at.mod
           sq == squashables[n]
       IN  /\ at.left > 0
           /\ CASE at.pc = "loop" /\ headIsNext(sq) ->
                     LET m == mergeRange(sq, effects[n])
                     IN  /\ squashables' = [squashables EXCEPT ![n] = m.sq]
                         /\ effects' = [effects EXCEPT ![n] = m.fx]
                         /\ inflight' = [inflight EXCEPT !.squash[w] =
                                            << [at EXCEPT !.pc = "pop", !.merged = Head(sq.ranges)] >>]
                [] at.pc = "loop" /\ ~headIsNext(sq) ->
                     /\ inflight' = [inflight EXCEPT !.squash[w] = << [at EXCEPT !.left = at.left - 1] >>]
                     /\ UNCHANGED <<squashables, effects>>
                [] at.pc = "pop" ->
                     /\ squashables' = [squashables EXCEPT ![n] = popRange(sq)]
                     /\ inflight' = [inflight EXCEPT !.squash[w] =
                                        << [at EXCEPT !.pc = IF reachesTarget(at.merged, targetExclusiveBlock)
                                                             THEN "reached" ELSE "loop"] >>]
                     /\ UNCHANGED effects
                [] at.pc = "reached" ->
                     LET m == markTargetReached(sq, effects[n], at.merged, notifier)
                     IN  /\ squashables' = [squashables EXCEPT ![n] = m.sq]
                         /\ effects' = [effects EXCEPT ![n] = m.fx]
                         /\ inflight' = [inflight EXCEPT !.squash[w] = << [at EXCEPT !.pc = "loop"] >>]
    /\ UNCHANGED <<targetExclusiveBlock, info, calls, notifier, ret, design, planVars, stagesVars,
                   snapshots, pipeline, graph>>

\* Squashable.squash returns nil and the deferred s.lock.Unlock() runs.
SquashUnlock(w) ==
    /\ design = "concurrent"
    /\ inflight.squash[w] # <<>>
    /\ inflight.squash[w][1].left = 0
    /\ ret' = [op |-> "Squash", mod |-> inflight.squash[w][1].mod, rng |-> inflight.squash[w][1].rng,
               err |-> "nil"]
    /\ inflight' = [inflight EXCEPT !.squash[w] = <<>>]
    /\ UNCHANGED <<squasherVars, design, planVars, stagesVars, snapshots, pipeline, graph>>

\* Squasher.StoresReady starts its loop over the map, taking no lock.
StoresReadyBegin ==
    /\ design = "concurrent"
    /\ inflight.reader = <<>>
    /\ inflight.polls < MaxStoresReadyCalls
    /\ \E o \in IterationOrders :
          inflight' = [inflight EXCEPT !.reader = << [todo |-> o, pc |-> "targetReached", errs |-> {}] >>,
                                       !.polls = inflight.polls + 1]
    /\ UNCHANGED <<squasherVars, ret, design, planVars, stagesVars, snapshots, pipeline, graph>>

\* One read of Squasher.StoresReady: v.targetReached of the store it is at, then
\* v.IsEmpty() of the same store. After the last read the call returns what it collected.
StoresReadyRead ==
    /\ design = "concurrent"
    /\ inflight.reader # <<>>
    /\ LET at == inflight.reader[1]
           n  == Head(at.todo)
           v  == squashables[n]
       IN  IF at.pc = "targetReached"
           THEN /\ inflight' = [inflight EXCEPT !.reader =
                                   << [at EXCEPT !.pc = "IsEmpty",
                                                 !.errs = IF v.targetReached THEN at.errs
                                                          ELSE at.errs \cup {<<n, "target not reached">>}] >>]
                /\ UNCHANGED ret
           ELSE LET errs == IF IsEmpty(v) THEN at.errs ELSE at.errs \cup {<<n, "missing ranges">>}
                IN  IF Len(at.todo) = 1
                    THEN /\ inflight' = [inflight EXCEPT !.reader = <<>>]
                         /\ ret' = [op |-> "StoresReady", errs |-> errs]
                    ELSE /\ inflight' = [inflight EXCEPT !.reader =
                                            << [todo |-> Tail(at.todo), pc |-> "targetReached",
                                                errs |-> errs] >>]
                         /\ UNCHANGED ret
    /\ UNCHANGED <<squasherVars, design, planVars, stagesVars, snapshots, pipeline, graph>>

\* A Squasher just built, no call in progress.
InitConcurrent ==
    /\ design = "concurrent"
    /\ PlanUnused
    /\ StagesUnused
    /\ snapshots = <<>>
    /\ pipeline = <<>>
    /\ graph = <<>>
    /\ inflight = Idle
    /\ targetExclusiveBlock \in {MaxBlock - 1, MaxBlock}
    /\ info \in [StoreNames -> 0..MaxBlock]
    /\ \A n \in StoreNames : info[n] \in LastKVSavedBlocks(n, targetExclusiveBlock)
    /\ squashables = [n \in StoreNames |-> NewSquasherEntry(ModuleInitialBlock[n], info[n])]
    /\ effects = [n \in StoreNames |-> <<>>]
    /\ calls = 0
    /\ notifier \in BOOLEAN
    /\ ret = [op |-> "NewSquasher", err |-> "nil"]

SquashLockCall ==
    \E w \in Workers, n \in StoreNames \cup {UnknownName}, r \in RequestRanges(targetExclusiveBlock) :
        SquashLock(w, n, r)

SquashStepCall == \E w \in Workers : SquashStep(w)

SquashUnlockCall == \E w \in Workers : SquashUnlock(w)

NextConcurrent ==
    \/ SquashLockCall
    \/ SquashStepCall
    \/ SquashUnlockCall
    \/ StoresReadyBegin
    \/ StoresReadyRead

\* Workers calling Squash while another goroutine calls StoresReady.
SpecConcurrent == InitConcurrent /\ [][NextConcurrent]_vars

\* ---------------------------------------------------------------- work.Plan

\* The store modules of the plan, in graph order: B reads store A, C reads stores A and B.
PlanModules == <<"A", "B", "C">>

PlanModuleNames == { PlanModules[i] : i \in 1..Len(PlanModules) }

\* The ancestor stores of a module.
ancestorsOf(m) ==
    CASE m = "B" -> {"A"}
      [] m = "C" -> {"A", "B"}
      [] OTHER   -> {}

\* The greatest element of a non-empty set of numbers.
MaxOf(S) == CHOOSE x \in S : \A y \in S : y <= x

\* The ancestors function of the plan's modules.
PlanAncestors == [ m \in PlanModuleNames |-> ancestorsOf(m) ]

\* ancestorsDepth counting the ancestors instead of the levels.
ancestorsDepthByCount(modName, ancestorsFor) ==
    1 + Cardinality(ancestorsFor[modName])

\* ancestorsDepth: 1 for a module without ancestors, else 1 + the deepest ancestor.
RECURSIVE ancestorsDepth(_, _)
ancestorsDepth(modName, ancestorsFor) ==
    IF ancestorsFor[modName] = {} THEN 1
    ELSE 1 + MaxOf({ ancestorsDepth(parent, ancestorsFor) : parent \in ancestorsFor[modName] })

\* calculateHighestDependencyDepth
calculateHighestDependencyDepth(mods, ancestorsFor) ==
    MaxOf({ ancestorsDepth(m, ancestorsFor) : m \in mods })

\* The priority of a job: the module's rank by dependency depth, plus the number of
\* subrequest ordinals between the job's start block and the plan's upToBlock.
jobPriority(m, requestRange, subrequestSplitSize, upToBlock) ==
    LET highestJobOrdinal == upToBlock \div subrequestSplitSize
        jobOrdinal        == requestRange.StartBlock \div subrequestSplitSize
    IN  (calculateHighestDependencyDepth(PlanModuleNames, PlanAncestors)
            - ancestorsDepth(m, PlanAncestors) + 1)
        + (highestJobOrdinal - jobOrdinal)

\* Ranges.MergedBuckets: contiguous ranges are joined while the bucket stays within maxBucketSize.
RECURSIVE MergedBucketsFrom(_, _, _)
MergedBucketsFrom(out, rs, maxBucketSize) ==
    IF rs = <<>> THEN out
    ELSE LET cur == Head(rs) IN
         IF out = <<>> THEN MergedBucketsFrom(<<cur>>, Tail(rs), maxBucketSize)
         ELSE LET prev == out[Len(out)] IN
              IF \/ prev.ExclusiveEndBlock # cur.StartBlock
                 \/ cur.ExclusiveEndBlock - prev.StartBlock > maxBucketSize
              THEN MergedBucketsFrom(Append(out, cur), Tail(rs), maxBucketSize)
              ELSE MergedBucketsFrom(
                       [out EXCEPT ![Len(out)] = NewRange(prev.StartBlock, cur.ExclusiveEndBlock)],
                       Tail(rs), maxBucketSize)

\* Ranges.MergedBuckets letting a bucket grow one segment beyond maxBucketSize.
MergedBucketsOneMore(rs, maxBucketSize) ==
    MergedBucketsFrom(<<>>, rs, maxBucketSize + SaveInterval)

MergedBuckets(rs, maxBucketSize) == MergedBucketsFrom(<<>>, rs, maxBucketSize)

\* A store's storage state: InitialCompleteFile is <<>> when absent, else <<end block>>;
\* PartialsMissing are the segments from the complete file's end (or the initial block) to upToBlock;
\* MissingCompleteRanges are the complete ranges the request needs and the disk does not have.
StoreStorageState(name, initialBlock, completeFile, upToBlock) ==
    LET base == IF completeFile = <<>> THEN initialBlock ELSE completeFile[1] IN
    [ ModuleName            |-> name,
      ModuleInitialBlock    |-> initialBlock,
      InitialCompleteFile   |-> completeFile,
      MissingCompleteRanges |-> <<>>,
      PartialsMissing       |-> SplitFrom(base, upToBlock, SaveInterval) ]

\* The storage state with complete ranges missing: one range from the module's initial
\* block to each of the end blocks.
withMissingCompleteRanges(state, ends) ==
    [ state EXCEPT !.MissingCompleteRanges =
        [ i \in 1..Len(ends) |-> NewRange(state.ModuleInitialBlock, ends[i]) ] ]

\* modulesReadyUpToBlock[m], 0 for a module without entry.
readyUpToBlock(ready, m) == IF m \in DOMAIN ready THEN ready[m] ELSE 0

\* allDependenciesMet with a single required module being enough.
someDependencyMet(ready, job) ==
    \/ job.requiredModules = {}
    \/ \E m \in job.requiredModules : readyUpToBlock(ready, m) >= job.RequestRange.StartBlock

\* Plan.allDependenciesMet
allDependenciesMet(ready, job) ==
    \A m \in job.requiredModules : readyUpToBlock(ready, m) >= job.RequestRange.StartBlock

\* Plan.initModulesReadyUpToBlock taking the module's initial block whatever is on disk.
initModulesReadyFromInitialBlock(stateMap) ==
    [ m \in DOMAIN stateMap |-> stateMap[m].ModuleInitialBlock ]

\* Plan.initModulesReadyUpToBlock
initModulesReadyUpToBlock(stateMap) ==
    [ m \in DOMAIN stateMap |->
        IF stateMap[m].InitialCompleteFile = <<>>
        THEN stateMap[m].ModuleInitialBlock
        ELSE stateMap[m].InitialCompleteFile[1] ]

\* bumpModuleUpToBlock writing upToBlock whatever the current value.
bumpModuleUpToBlockAlways(ready, modName, upToBlock) ==
    [ m \in DOMAIN ready \cup {modName} |-> IF m = modName THEN upToBlock ELSE ready[m] ]

\* Plan.bumpModuleUpToBlock
bumpModuleUpToBlock(ready, modName, upToBlock) ==
    [ m \in DOMAIN ready \cup {modName} |->
        IF m = modName
        THEN (IF readyUpToBlock(ready, modName) < upToBlock
              THEN upToBlock ELSE readyUpToBlock(ready, modName))
        ELSE ready[m] ]

\* The order of readyJobs letting a job pass the jobs of the same priority and start block.
jobBeforeOrWith(a, b) ==
    \/ a.priority > b.priority
    \/ a.priority = b.priority /\ a.RequestRange.StartBlock <= b.RequestRange.StartBlock

\* The order of readyJobs: higher priority first, then lower start block.
jobBefore(a, b) ==
    \/ a.priority > b.priority
    \/ a.priority = b.priority /\ a.RequestRange.StartBlock < b.RequestRange.StartBlock

RECURSIVE insertJob(_, _)
insertJob(sorted, job) ==
    IF sorted = <<>> THEN <<job>>
    ELSE IF jobBefore(job, Head(sorted)) THEN <<job>> \o sorted
    ELSE <<Head(sorted)>> \o insertJob(Tail(sorted), job)

\* Plan.prioritize: a stable sort of readyJobs.
RECURSIVE prioritize(_)
prioritize(jobs) ==
    IF jobs = <<>> THEN <<>>
    ELSE insertJob(prioritize(SubSeq(jobs, 1, Len(jobs) - 1)), jobs[Len(jobs)])

\* The jobs of one module: one per missing complete range, whole, then one per batch of
\* its missing partial ranges.
jobsOf(state, subrequestSplitSize, upToBlock) ==
    LET requests == state.MissingCompleteRanges
                        \o MergedBuckets(state.PartialsMissing, subrequestSplitSize) IN
    [ i \in 1..Len(requests) |->
        [ ModuleName      |-> state.ModuleName,
          RequestRange    |-> requests[i],
          requiredModules |-> ancestorsOf(state.ModuleName),
          priority        |-> jobPriority(state.ModuleName, requests[i],
                                          subrequestSplitSize, upToBlock) ] ]

\* Plan.splitWorkIntoJobs: the jobs of all modules, in module order.
RECURSIVE splitWorkIntoJobs(_, _, _, _)
splitWorkIntoJobs(stateMap, mods, subrequestSplitSize, upToBlock) ==
    IF mods = <<>> THEN <<>>
    ELSE jobsOf(stateMap[Head(mods)], subrequestSplitSize, upToBlock)
         \o splitWorkIntoJobs(stateMap, Tail(mods), subrequestSplitSize, upToBlock)

\* BuildNewPlan
BuildNewPlan(stateMap, subrequestSplitSize, upToBlock) ==
    LET ready == initModulesReadyUpToBlock(stateMap)
        jobs  == splitWorkIntoJobs(stateMap, PlanModules, subrequestSplitSize, upToBlock)
    IN  [ ModulesStateMap       |-> stateMap,
          upToBlock             |-> upToBlock,
          waitingJobs           |-> SelectSeq(jobs, LAMBDA j : ~allDependenciesMet(ready, j)),
          readyJobs             |-> prioritize(SelectSeq(jobs, LAMBDA j : allDependenciesMet(ready, j))),
          modulesReadyUpToBlock |-> ready ]

\* Plan.promoteWaitingJobs stopping at the first waiting job it promotes.
promoteFirstWaitingJob(p) ==
    LET met == { i \in 1..Len(p.waitingJobs) :
                    allDependenciesMet(p.modulesReadyUpToBlock, p.waitingJobs[i]) }
    IN  IF met = {} THEN p
        ELSE LET i == CHOOSE x \in met : \A y \in met : x <= y IN
             [ p EXCEPT
                 !.waitingJobs = SubSeq(p.waitingJobs, 1, i - 1)
                                 \o SubSeq(p.waitingJobs, i + 1, Len(p.waitingJobs)),
                 !.readyJobs   = Append(p.readyJobs, p.waitingJobs[i]) ]

\* promoteWaitingJobs leaving the promoted jobs in waitingJobs as well.
promoteWaitingJobsKeepingThem(p) ==
    [ p EXCEPT
        !.readyJobs = p.readyJobs \o
                      SelectSeq(p.waitingJobs,
                                LAMBDA j : allDependenciesMet(p.modulesReadyUpToBlock, j)) ]

\* Plan.promoteWaitingJobs
promoteWaitingJobs(p) ==
    [ p EXCEPT
        !.waitingJobs = SelectSeq(p.waitingJobs,
                                  LAMBDA j : ~allDependenciesMet(p.modulesReadyUpToBlock, j)),
        !.readyJobs   = p.readyJobs \o
                        SelectSeq(p.waitingJobs,
                                  LAMBDA j : allDependenciesMet(p.modulesReadyUpToBlock, j)) ]

\* Plan.MarkDependencyComplete
MarkDependencyComplete(modName, upToBlock) ==
    /\ design = "plan"
    /\ LET bumped   == [plan EXCEPT !.modulesReadyUpToBlock =
                                       bumpModuleUpToBlock(plan.modulesReadyUpToBlock, modName, upToBlock)]
           promoted == promoteWaitingJobs(bumped)
       IN  plan' = [promoted EXCEPT !.readyJobs = prioritize(promoted.readyJobs)]
    /\ ret' = [op |-> "MarkDependencyComplete", mod |-> modName, blk |-> upToBlock]
    /\ UNCHANGED <<squasherVars, design, returned, stagesVars, otherVars>>

\* moreComing looking at the waiting jobs only.
hasMoreWaiting(p) == Len(p.waitingJobs) > 0

\* moreComing: some job is waiting or ready.
hasMore(p) == Len(p.readyJobs) + Len(p.waitingJobs) > 0

\* Plan.NextJob: no job when none is ready, else the first ready job, removed from readyJobs.
NextJob ==
    /\ design = "plan"
    /\ IF Len(plan.readyJobs) = 0
       THEN /\ ret' = [op |-> "NextJob", job |-> <<>>, moreComing |-> hasMore(plan)]
            /\ UNCHANGED <<plan, returned>>
       ELSE /\ plan' = [plan EXCEPT !.readyJobs = Tail(plan.readyJobs)]
            /\ returned' = handOut(returned, Head(plan.readyJobs))
            /\ ret' = [op |-> "NextJob", job |-> <<Head(plan.readyJobs)>>,
                       moreComing |-> hasMore([plan EXCEPT !.readyJobs = Tail(plan.readyJobs)])]
    /\ UNCHANGED <<squasherVars, design, stagesVars, otherVars>>

\* The blocks a store is reported ready up to: segment boundaries and the plan's upToBlock.
ReadyBlocks(upToBlock) == { b \in 0..upToBlock : b % SaveInterval = 0 \/ b = upToBlock }

\* The storage states the plan may be built from: A and C start at block 0, B at 0 or 1;
\* A and B may have a complete file ending on the first segment boundary, and A may miss
\* the complete range of its first segment.
PlanStateMaps(upToBlock) ==
    { [ m \in PlanModuleNames |->
          withMissingCompleteRanges(
              StoreStorageState(m, IF m = "B" THEN bInit ELSE 0,
                                IF m = "A" THEN aFile ELSE IF m = "B" THEN bFile ELSE <<>>,
                                upToBlock),
              IF m = "A" THEN aFull ELSE <<>>) ] :
        bInit \in {0, 1}, aFile \in {<<>>, <<SaveInterval>>}, bFile \in {<<>>, <<SaveInterval>>},
        aFull \in {<<>>, <<SaveInterval>>} }

\* The run has no Squasher.
SquasherUnused ==
    /\ targetExclusiveBlock = 0
    /\ info = <<>>
    /\ squashables = <<>>
    /\ effects = <<>>
    /\ calls = 0
    /\ notifier = FALSE

InitPlan ==
    /\ design = "plan"
    /\ SquasherUnused
    /\ StagesUnused
    /\ OthersUnused
    /\ \E upToBlock \in {MaxBlock - 1, MaxBlock} :
         \E stateMap \in PlanStateMaps(upToBlock) :
            plan = BuildNewPlan(stateMap, SubrequestSplit, upToBlock)
    /\ returned = <<>>
    /\ ret = [op |-> "BuildNewPlan"]

MarkCall ==
    \E m \in PlanModuleNames \cup {UnknownName}, b \in ReadyBlocks(plan.upToBlock) :
        MarkDependencyComplete(m, b)

NextPlan ==
    \/ NextJob
    \/ MarkCall

SpecPlan == InitPlan /\ [][NextPlan]_vars

\* The jobs of the lists prioritize is tried on: two modules, two segments, each priority
\* the plan's modules can get.
SomeJobs ==
    { [ ModuleName      |-> m,
        RequestRange    |-> NewRange(s, s + SaveInterval),
        requiredModules |-> {},
        priority        |-> q ] :
        m \in {"A", "B"}, s \in {0, SaveInterval}, q \in 1..Len(PlanModules) }

\* The lists of at most MaxJobs of these jobs.
SomeJobLists == UNION { [1..n -> SomeJobs] : n \in 0..MaxJobs }

\* A Plan holding nothing but a list of ready jobs, in any order.
InitPrioritize ==
    /\ design = "prioritize"
    /\ SquasherUnused
    /\ StagesUnused
    /\ OthersUnused
    /\ \E jobs \in SomeJobLists : plan = [NoPlan EXCEPT !.readyJobs = jobs]
    /\ returned = <<>>
    /\ ret = [op |-> "Plan"]

\* Plan.prioritize, called on its own.
PrioritizeCall ==
    /\ design = "prioritize"
    /\ plan' = [plan EXCEPT !.readyJobs = prioritize(plan.readyJobs)]
    /\ ret' = [op |-> "prioritize"]
    /\ UNCHANGED <<squasherVars, design, returned, stagesVars, otherVars>>

InitPlanOrPrioritize ==
    \/ InitPlan
    \/ InitPrioritize

NextPlanOrPrioritize ==
    \/ NextPlan
    \/ PrioritizeCall

\* The ranges of the list whose index is in K, in list order.
RECURSIVE KeepFrom(_, _, _)
KeepFrom(rs, K, i) ==
    IF i > Len(rs) THEN <<>>
    ELSE (IF i \in K THEN <<rs[i]>> ELSE <<>>) \o KeepFrom(rs, K, i + 1)

\* A store's storage state with some of its segments already present as partial files:
\* PartialsMissing are the segments of missing, the others are on disk.
StoreStorageStateMissing(name, initialBlock, upToBlock, missing) ==
    [ ModuleName            |-> name,
      ModuleInitialBlock    |-> initialBlock,
      InitialCompleteFile   |-> <<>>,
      MissingCompleteRanges |-> <<>>,
      PartialsMissing       |-> KeepFrom(SplitFrom(initialBlock, upToBlock, SaveInterval),
                                         missing, 1) ]

\* The end blocks of the complete ranges a store may miss: none, the first segment, or
\* the first segment and the first two.
MissingCompleteEnds == { <<>>, <<SaveInterval>>, <<SaveInterval, 2 * SaveInterval>> }

\* The storage states with any set of segments missing for each store, and complete
\* ranges missing for A.
GappedStateMaps(upToBlock) ==
    LET Segments == SUBSET (1..((upToBlock + SaveInterval - 1) \div SaveInterval)) IN
    { [ m \in PlanModuleNames |->
          withMissingCompleteRanges(
              StoreStorageStateMissing(m, IF m = "B" THEN 1 ELSE 0, upToBlock,
                                       IF m = "A" THEN a ELSE IF m = "B" THEN b ELSE c),
              IF m = "A" THEN full ELSE <<>>) ] :
        a \in Segments, b \in Segments, c \in Segments, full \in MissingCompleteEnds }

\* The storage state is read, the plan is not built yet.
InitJobs ==
    /\ design = "jobs"
    /\ SquasherUnused
    /\ StagesUnused
    /\ OthersUnused
    /\ \E upToBlock \in {MaxBlock - 1, MaxBlock} :
         \E stateMap \in GappedStateMaps(upToBlock) :
            plan = [NoPlan EXCEPT !.ModulesStateMap = stateMap, !.upToBlock = upToBlock]
    /\ returned = <<>>
    /\ ret = [op |-> "state"]

\* BuildNewPlan on the storage state read.
BuildCall ==
    /\ design = "jobs"
    /\ ret.op = "state"
    /\ plan' = BuildNewPlan(plan.ModulesStateMap, SubrequestSplit, plan.upToBlock)
    /\ ret' = [op |-> "BuildNewPlan"]
    /\ UNCHANGED <<squasherVars, design, returned, stagesVars, otherVars>>

NextJobs ==
    \/ BuildCall

\* The plans built from storage states with partial files present here and there.
SpecJobs == InitJobs /\ [][NextJobs]_vars

\* A Plan holding nothing but the storage state of some of the stores, or of none.
InitReadyMap ==
    /\ design = "readyMap"
    /\ SquasherUnused
    /\ StagesUnused
    /\ OthersUnused
    /\ \E upToBlock \in {MaxBlock - 1, MaxBlock} :
         \E stateMap \in PlanStateMaps(upToBlock), mods \in SUBSET PlanModuleNames :
            plan = [NoPlan EXCEPT !.ModulesStateMap = [m \in mods |-> stateMap[m]],
                                  !.upToBlock = upToBlock]
    /\ returned = <<>>
    /\ ret = [op |-> "Plan"]

\* Plan.initModulesReadyUpToBlock, called on its own.
InitModulesReadyUpToBlockCall ==
    /\ design = "readyMap"
    /\ plan' = [plan EXCEPT !.modulesReadyUpToBlock = initModulesReadyUpToBlock(plan.ModulesStateMap)]
    /\ ret' = [op |-> "initModulesReadyUpToBlock"]
    /\ UNCHANGED <<squasherVars, design, returned, stagesVars, otherVars>>

NextReadyMap ==
    \/ InitModulesReadyUpToBlockCall

SpecReadyMap == InitReadyMap /\ [][NextReadyMap]_vars

\* The modules of the graphs ancestorsDepth is tried on.
GraphModules == {"A", "B", "C", "D"}

\* The modules reached from m by following ancestorsFor at most Cardinality(GraphModules)
\* times.
RECURSIVE reachedFrom(_, _, _)
reachedFrom(ancestorsFor, from, n) ==
    IF n = 0 THEN from
    ELSE reachedFrom(ancestorsFor, from \cup UNION { ancestorsFor[x] : x \in from }, n - 1)

\* No module is among its own ancestors, however far.
Acyclic(ancestorsFor) ==
    \A m \in DOMAIN ancestorsFor :
        m \notin reachedFrom(ancestorsFor, ancestorsFor[m], Cardinality(DOMAIN ancestorsFor))

\* Any acyclic ancestors function over the modules.
InitGraph ==
    /\ design = "graph"
    /\ SquasherUnused
    /\ PlanUnused
    /\ StagesUnused
    /\ snapshots = <<>>
    /\ pipeline = <<>>
    /\ inflight = <<>>
    /\ graph \in [GraphModules -> SUBSET GraphModules]
    /\ Acyclic(graph)
    /\ ret = [op |-> "graph"]

\* ancestorsDepth of the output module and calculateHighestDependencyDepth of the modules.
AncestorsDepthCall ==
    /\ design = "graph"
    /\ \E outputModule \in GraphModules :
          ret' = [op           |-> "ancestorsDepth",
                  outputModule |-> outputModule,
                  depth        |-> ancestorsDepth(outputModule, graph),
                  highestDepth |-> calculateHighestDependencyDepth(GraphModules, graph)]
    /\ UNCHANGED <<squasherVars, design, planVars, stagesVars, otherVars>>

NextGraph ==
    \/ AncestorsDepthCall

SpecGraph == InitGraph /\ [][NextGraph]_vars

\* The plan as the scheduler drives it, and prioritize on lists in any order.
SpecPrioritize == InitPlanOrPrioritize /\ [][NextPlanOrPrioritize]_vars

\* ---------------------------------------------------------------- stage.Stages

\* block.NewSegmenter
NewSegmenter(interval, initialBlock, exclusiveEndBlock) ==
    [ interval          |-> interval,
      initialBlock      |-> initialBlock,
      exclusiveEndBlock |-> exclusiveEndBlock ]

\* Segmenter.WithInitialBlock
WithInitialBlock(s, newInitialBlock) ==
    NewSegmenter(s.interval, newInitialBlock, s.exclusiveEndBlock)

\* Segmenter.computeCount taking the end block as the last block of the last segment.
CountToLastBlock(s) ==
    ((s.exclusiveEndBlock - 1) \div s.interval) - (s.initialBlock \div s.interval) + 1

\* Segmenter.computeCount
Count(s) == (s.exclusiveEndBlock \div s.interval) - (s.initialBlock \div s.interval) + 1

\* Segmenter.FirstIndex: the index of the segment holding the initial block.
FirstIndex(s) == s.initialBlock \div s.interval

\* Segmenter.LastIndex: the index of the last of the Count segments.
LastIndex(s) == FirstIndex(s) + Count(s) - 1

\* Segmenter.IndexForStartBlock
IndexForStartBlock(s, blockNum) == blockNum \div s.interval

\* Segmenter.Range as Stages.NextJob calls it, with a segment index counted from block 0
\* (between FirstIndex and LastIndex).
RangeAtIndex(s, idx) ==
    IF idx = FirstIndex(s)
    THEN NewRange(s.initialBlock,
                  Min(s.initialBlock - (s.initialBlock % s.interval) + s.interval, s.exclusiveEndBlock))
    ELSE NewRange(idx * s.interval, Min(idx * s.interval + s.interval, s.exclusiveEndBlock))

\* A nil *Range.
NilRange == <<>>

\* Segmenter.firstRange starting at the segment's first block.
firstRangeFromSegmentStart(s) ==
    IF s.exclusiveEndBlock < s.initialBlock THEN NilRange
    ELSE LET floorLowerBound == s.initialBlock - (s.initialBlock % s.interval)
             upperBound      == floorLowerBound + s.interval
         IN  <<NewRange(floorLowerBound, Min(upperBound, s.exclusiveEndBlock))>>

\* Segmenter.firstRange
firstRange(s) ==
    IF s.exclusiveEndBlock < s.initialBlock THEN NilRange
    ELSE LET floorLowerBound == s.initialBlock - (s.initialBlock % s.interval)
             upperBound      == floorLowerBound + s.interval
         IN  <<NewRange(s.initialBlock, Min(upperBound, s.exclusiveEndBlock))>>

\* Segmenter.rangeFromBegin
rangeFromBegin(s, idx) ==
    IF idx >= Count(s) THEN NilRange
    ELSE LET baseBlock  == (s.initialBlock - (s.initialBlock % s.interval)) + idx * s.interval
             upperBound == baseBlock + s.interval
         IN  <<NewRange(baseBlock, Min(upperBound, s.exclusiveEndBlock))>>

\* Segmenter.Range: the segment index is counted from the segmenter's first segment; the
\* range in a one-element sequence, or NilRange.
Range(s, idx) ==
    IF idx < 0 THEN NilRange
    ELSE IF idx = 0 THEN firstRange(s)
    ELSE rangeFromBegin(s, idx)

\* Segmenter.IsPartial panics: on an index at or after Count, by its own test, and on an
\* index for which Range returns nil, by reading the nil range.
IsPartialPanics(s, segmentIndex) ==
    \/ segmentIndex >= Count(s)
    \/ Range(s, segmentIndex) = NilRange

\* Segmenter.IsPartial, when it does not panic: the segment ends off the interval.
IsPartial(s, segmentIndex) ==
    /\ ~IsPartialPanics(s, segmentIndex)
    /\ Range(s, segmentIndex)[1].ExclusiveEndBlock % s.interval # 0

\* Segmenter.IndexForBlock counting the segments from the initial block itself.
IndexForBlockFromInitialBlock(s, blockNum) ==
    (blockNum - s.initialBlock) \div s.interval

\* Segmenter.IndexForBlock, counted from the segmenter's first segment.
IndexForBlock(s, blockNum) ==
    LET blockSegment == blockNum \div s.interval
        initSegment  == s.initialBlock \div s.interval
    IN  blockSegment - initSegment

\* The kinds of the stages, lowest stage first.
StageKinds == <<"store", "store", "map">>

\* Stage indices, counted from 0 as in the code.
StageIndexes == 0..(Len(StageKinds) - 1)

\* A row of the matrix as growSegments allocates it: every stage Pending.
newStageStates(stgs) == [ i \in 1..Len(stgs) |-> "Pending" ]

\* Stages.growSegments: doubles the matrix, or allocates two segments when it is empty.
growSegments(states, stgs) ==
    LET by == IF Len(states) = 0 THEN 2 ELSE Len(states) IN
    states \o [ i \in 1..by |-> newStageStates(stgs) ]

\* Stages.GetState
GetState(states, offset, u) == states[u.Segment - offset + 1][u.Stage + 1]

\* Stages.setState
setState(states, offset, u, state) ==
    [ states EXCEPT ![u.Segment - offset + 1][u.Stage + 1] = state ]

\* Stages.markSegmentScheduled
markSegmentScheduled(states, offset, u) == setState(states, offset, u, "Scheduled")

\* Stages.dependenciesCompleted taking a lower stage that was handed out for completed.
dependenciesStarted(states, offset, stgs, u) ==
    \/ u.Segment <= FirstIndex(stgs[u.Stage + 1].segmenter)
    \/ u.Stage = 0
    \/ \A i \in 0..(u.Stage - 1) :
          GetState(states, offset, [Segment |-> u.Segment - 1, Stage |-> i]) # "Pending"

\* Stages.dependenciesCompleted
dependenciesCompleted(states, offset, stgs, u) ==
    \/ u.Segment <= FirstIndex(stgs[u.Stage + 1].segmenter)
    \/ u.Stage = 0
    \/ \A i \in 0..(u.Stage - 1) :
          GetState(states, offset, [Segment |-> u.Segment - 1, Stage |-> i]) = "Completed"

\* The body of NextJob's inner loop without its test of the unit's state.
schedulableWhateverState(states, offset, stgs, u) ==
    /\ ~(u.Segment < FirstIndex(stgs[u.Stage + 1].segmenter))
    /\ dependenciesCompleted(states, offset, stgs, u)

\* The body of NextJob's inner loop: whether the unit is the one to schedule.
schedulable(states, offset, stgs, u) ==
    /\ GetState(states, offset, u) = "Pending"
    /\ ~(u.Segment < FirstIndex(stgs[u.Stage + 1].segmenter))
    /\ dependenciesCompleted(states, offset, stgs, u)

\* NextJob's inner loop running from stage 0 up: the lowest of the stages found.
firstStageFromBottom(found) == CHOOSE x \in found : \A y \in found : x <= y

\* NextJob's inner loop runs from the last stage down: the highest of the stages found.
firstStageFromTop(found) == MaxOf(found)

\* NextJob's loop from segmentIdx on: the matrix it leaves and the unit it returns, if any.
RECURSIVE nextJobFrom(_, _, _, _, _)
nextJobFrom(states, offset, sgm, stgs, segmentIdx) ==
    LET grown == IF Len(states) <= segmentIdx - offset THEN growSegments(states, stgs) ELSE states
        found == { stageIdx \in 0..(Len(stgs) - 1) :
                     schedulable(grown, offset, stgs, [Segment |-> segmentIdx, Stage |-> stageIdx]) }
    IN  IF segmentIdx > LastIndex(sgm)
        THEN [ states |-> grown, unit |-> <<>> ]
        ELSE IF found # {}
        THEN LET unit == [Segment |-> segmentIdx, Stage |-> firstStageFromTop(found)] IN
             [ states |-> markSegmentScheduled(grown, offset, unit), unit |-> <<unit>> ]
        ELSE nextJobFrom(grown, offset, sgm, stgs, segmentIdx + 1)

\* The row of segment segmentIdx is one of the rows of the matrix.
inMatrix(states, offset, segmentIdx) ==
    /\ 0 <= segmentIdx - offset
    /\ segmentIdx - offset < Len(states)

\* NextJob's loop from segmentIdx on reads a row the matrix does not have, which panics:
\* the row of the segment it examines, after growSegments ran at most once for it, or the
\* row of the segment before, read by dependenciesCompleted. The result is the matrix as
\* growSegments left it, in a one-element sequence, or <<>> when the loop does not panic.
RECURSIVE nextJobPanic(_, _, _, _, _)
nextJobPanic(states, offset, sgm, stgs, segmentIdx) ==
    LET grown == IF Len(states) <= segmentIdx - offset THEN growSegments(states, stgs) ELSE states
    IN  IF segmentIdx > LastIndex(sgm) THEN <<>>
        ELSE IF ~inMatrix(grown, offset, segmentIdx) THEN <<grown>>
        ELSE IF /\ ~inMatrix(grown, offset, segmentIdx - 1)
                /\ \E stageIdx \in 1..(Len(stgs) - 1) :
                      /\ grown[segmentIdx - offset + 1][stageIdx + 1] = "Pending"
                      /\ segmentIdx > FirstIndex(stgs[stageIdx + 1].segmenter)
        THEN <<grown>>
        ELSE IF \E stageIdx \in 0..(Len(stgs) - 1) :
                   schedulable(grown, offset, stgs, [Segment |-> segmentIdx, Stage |-> stageIdx])
        THEN <<>>
        ELSE nextJobPanic(grown, offset, sgm, stgs, segmentIdx + 1)

\* Stages.NextJob
StagesNextJob ==
    /\ design = "stages"
    /\ IF nextJobPanic(segmentStates, segmentOffset, segmenter, stages, FirstIndex(segmenter)) # <<>>
       THEN /\ segmentStates' =
                  nextJobPanic(segmentStates, segmentOffset, segmenter, stages, FirstIndex(segmenter))[1]
            /\ ret' = [op |-> "NextJob", unit |-> <<>>, rng |-> <<>>, panics |-> TRUE]
            /\ UNCHANGED returned
       ELSE
       LET out == nextJobFrom(segmentStates, segmentOffset, segmenter, stages, FirstIndex(segmenter)) IN
        /\ segmentStates' = out.states
        /\ IF out.unit = <<>>
           THEN /\ ret' = [op |-> "NextJob", unit |-> <<>>, rng |-> <<>>, panics |-> FALSE]
                /\ UNCHANGED returned
           ELSE /\ ret' = [op |-> "NextJob", unit |-> out.unit,
                           rng |-> <<RangeAtIndex(segmenter, out.unit[1].Segment)>>, panics |-> FALSE]
                /\ returned' = handOut(returned, out.unit[1])
    /\ UNCHANGED <<squasherVars, design, plan, segmenter, stages, segmentOffset, otherVars>>

\* The units the matrix has a cell for.
AllocatedUnits ==
    { u \in [Segment : segmentOffset..(segmentOffset + Len(segmentStates) - 1), Stage : StageIndexes] : TRUE }

\* A state transition of one unit: from state `from` to state `to`.
transition(name, u, from, to) ==
    /\ design = "stages"
    /\ GetState(segmentStates, segmentOffset, u) = from
    /\ segmentStates' = setState(segmentStates, segmentOffset, u, to)
    /\ ret' = [op |-> name]
    /\ UNCHANGED <<squasherVars, design, planVars, segmenter, stages, segmentOffset, otherVars>>

\* Stages.MarkSegmentPartialPresent: the job of a scheduled unit, of whatever stage, has
\* written its partial.
MarkSegmentPartialPresent ==
    \E u \in AllocatedUnits : transition("MarkSegmentPartialPresent", u, "Scheduled", "PartialPresent")

\* Stages.MarkSegmentMerging
MarkSegmentMerging ==
    \E u \in AllocatedUnits : transition("MarkSegmentMerging", u, "PartialPresent", "Merging")

\* Stages.MarkSegmentCompleted
MarkSegmentCompleted ==
    \E u \in AllocatedUnits : transition("MarkSegmentCompleted", u, "Merging", "Completed")

\* Stages.forceTransition of a scheduled unit, of whatever stage, to Completed.
forceTransition ==
    \E u \in AllocatedUnits : transition("forceTransition", u, "Scheduled", "Completed")

\* The initial blocks of the stages: the first stage starts at block 0 or 1, the second
\* with it or in the second segment, the last with the first.
StageInitialBlocks ==
    { <<a, b, a>> : a \in {0, 1}, b \in {1, SaveInterval + 1} }

\* NewStages
NewStages(sgm, initialBlocks) ==
    [ segmenter     |-> sgm,
      segmentOffset |-> IndexForStartBlock(sgm, MaxOf({ -initialBlocks[i] : i \in 1..Len(initialBlocks) }) * (-1)),
      stages        |-> [ i \in 1..Len(StageKinds) |->
                            [ kind      |-> StageKinds[i],
                              segmenter |-> WithInitialBlock(sgm, initialBlocks[i]) ] ] ]

InitStages ==
    /\ design = "stages"
    /\ SquasherUnused
    /\ PlanUnused
    /\ OthersUnused
    /\ \E exclusiveEndBlock \in {MaxBlock - 1, MaxBlock}, initialBlocks \in StageInitialBlocks :
         LET out == NewStages(NewSegmenter(SaveInterval, initialBlocks[1], exclusiveEndBlock), initialBlocks) IN
            /\ segmenter = out.segmenter
            /\ stages = out.stages
            /\ segmentOffset = out.segmentOffset
    /\ segmentStates = <<>>
    /\ ret = [op |-> "NewStages"]

NextStages ==
    \/ StagesNextJob
    \/ MarkSegmentPartialPresent
    \/ MarkSegmentMerging
    \/ MarkSegmentCompleted
    \/ forceTransition

SpecStages == InitStages /\ [][NextStages]_vars

\* A NextJob call or a transition of a unit can change something: NextJob has a unit to
\* return or has not yet returned that there is none, or a unit is on its way to Completed.
StagesCanStep ==
    \/ ret # [op |-> "NextJob", unit |-> <<>>, rng |-> <<>>, panics |-> FALSE]
    \/ \E u \in AllocatedUnits :
          GetState(segmentStates, segmentOffset, u) \in {"Scheduled", "PartialPresent", "Merging"}
    \/ \E stageIdx \in StageIndexes, segmentIdx \in FirstIndex(segmenter)..LastIndex(segmenter) :
          /\ inMatrix(segmentStates, segmentOffset, segmentIdx)
          /\ schedulable(segmentStates, segmentOffset, stages,
                         [Segment |-> segmentIdx, Stage |-> stageIdx])

\* The Stages with NextJob called again and again and every unit NextJob returned taken
\* through its states up to Completed: as every step but a NextJob call without job moves a
\* unit forward, the run goes on as long as a call or a transition can change something.
SpecStagesLive ==
    /\ InitStages
    /\ [][NextStages]_vars
    /\ ([]<>(~StagesCanStep) \/ []<><<NextStages>>_vars)

\* NewStages with a segmenter that starts at any block from the lowest initial block of the
\* modules on: segmentOffset is the segment of the lowest initial block, the segmenter's
\* first segment is that one or a later one.
InitStagesOffset ==
    /\ design = "stages"
    /\ SquasherUnused
    /\ PlanUnused
    /\ OthersUnused
    /\ \E exclusiveEndBlock \in {MaxBlock - 1, MaxBlock}, initialBlocks \in StageInitialBlocks :
       \E initialBlock \in initialBlocks[1]..(exclusiveEndBlock - 1) :
         LET out == NewStages(NewSegmenter(SaveInterval, initialBlock, exclusiveEndBlock), initialBlocks) IN
            /\ segmenter = out.segmenter
            /\ stages = out.stages
            /\ segmentOffset = out.segmentOffset
    /\ segmentStates = <<>>
    /\ ret = [op |-> "NewStages"]

\* Stages built for a segmenter that may start after the segment of segmentOffset.
SpecStagesOffset == InitStagesOffset /\ [][NextStages]_vars

\* Either scheduler design: the list of jobs of work.Plan or the matrix of stage.Stages.
InitSched ==
    \/ InitPlan
    \/ InitStages

NextSched ==
    \/ NextPlan
    \/ NextStages

\* A segmenter on its own: any interval, any bounds b0 <= bN.
InitSegmenter ==
    /\ design = "segmenter"
    /\ SquasherUnused
    /\ PlanUnused
    /\ OthersUnused
    /\ \E interval \in 1..MaxInterval, initialBlock \in 0..MaxBlock, exclusiveEndBlock \in 0..MaxBlock :
          /\ initialBlock <= exclusiveEndBlock
          /\ segmenter = NewSegmenter(interval, initialBlock, exclusiveEndBlock)
    /\ stages = <<>>
    /\ segmentStates = <<>>
    /\ segmentOffset = 0
    /\ ret = [op |-> "NewSegmenter"]

\* Segmenter.Count
CountCall ==
    /\ design = "segmenter"
    /\ ret' = [op |-> "Count", val |-> Count(segmenter)]
    /\ UNCHANGED <<squasherVars, design, planVars, stagesVars, otherVars>>

\* Segmenter.Range
RangeCall ==
    /\ design = "segmenter"
    /\ \E idx \in -1..(MaxBlock + 1) :
          ret' = [op |-> "Range", idx |-> idx, panics |-> FALSE,
                  val |-> Range(segmenter, idx)]
    /\ UNCHANGED <<squasherVars, design, planVars, stagesVars, otherVars>>

\* Segmenter.IndexForBlock
IndexForBlockCall ==
    /\ design = "segmenter"
    /\ \E blockNum \in 0..MaxBlock :
          ret' = [op |-> "IndexForBlock", blockNum |-> blockNum, panics |-> FALSE,
                  val |-> IndexForBlock(segmenter, blockNum)]
    /\ UNCHANGED <<squasherVars, design, planVars, stagesVars, otherVars>>

\* Segmenter.IsPartial
IsPartialCall ==
    /\ design = "segmenter"
    /\ \E segmentIndex \in -1..(MaxBlock + 1) :
          ret' = [op |-> "IsPartial", idx |-> segmentIndex,
                  panics |-> IsPartialPanics(segmenter, segmentIndex),
                  val |-> IsPartial(segmenter, segmentIndex)]
    /\ UNCHANGED <<squasherVars, design, planVars, stagesVars, otherVars>>

NextSegmenter ==
    \/ CountCall
    \/ RangeCall
    \/ IsPartialCall
    \/ IndexForBlockCall

SpecSegmenter == InitSegmenter /\ [][NextSegmenter]_vars

SpecSched == InitSched /\ [][NextSched]_vars


\* ---------------------------------------------------------------- orchestrator.Snapshots

\* Snapshots.LastCompletedBlock: the end of the last complete snapshot, 0 without any.
LastCompletedBlock(s) ==
    IF Len(s.Completes) = 0 THEN 0
    ELSE s.Completes[Len(s.Completes)].ExclusiveEndBlock

\* The scan of LastCompleteSnapshotBefore passing over the snapshots that end on blockNum.
RECURSIVE lastCompleteStrictlyBeforeFrom(_, _, _)
lastCompleteStrictlyBeforeFrom(completes, i, blockNum) ==
    IF i = 0 THEN NilRange
    ELSE IF completes[i].ExclusiveEndBlock >= blockNum
         THEN lastCompleteStrictlyBeforeFrom(completes, i - 1, blockNum)
         ELSE <<completes[i]>>

\* The scan of LastCompleteSnapshotBefore: from the last complete snapshot down, the first
\* one that does not end after blockNum.
RECURSIVE lastCompleteBeforeFrom(_, _, _)
lastCompleteBeforeFrom(completes, i, blockNum) ==
    IF i = 0 THEN NilRange
    ELSE IF completes[i].ExclusiveEndBlock > blockNum
         THEN lastCompleteBeforeFrom(completes, i - 1, blockNum)
         ELSE <<completes[i]>>

\* Snapshots.LastCompleteSnapshotBefore passing over the snapshots that end on blockNum.
LastCompleteSnapshotStrictlyBefore(s, blockNum) ==
    lastCompleteStrictlyBeforeFrom(s.Completes, Len(s.Completes), blockNum)

\* Snapshots.LastCompleteSnapshotBefore: the range in a one-element sequence, or NilRange.
LastCompleteSnapshotBefore(s, blockNum) ==
    lastCompleteBeforeFrom(s.Completes, Len(s.Completes), blockNum)

\* The snapshots a store can have on storage: complete snapshots from the store's initial
\* block to multiples of the save interval, sorted by end block, and partial files of
\* segments, sorted by start block.
SomeSnapshots ==
    { [ Completes |-> SortRanges(KeepFrom(
            [ i \in 1..(MaxBlock \div SaveInterval) |-> NewRange(initialBlock, i * SaveInterval) ],
            c, 1)),
        Partials  |-> KeepFrom(SplitFrom(initialBlock, MaxBlock, SaveInterval), q, 1) ] :
        initialBlock \in {0, 1},
        c \in SUBSET (1..(MaxBlock \div SaveInterval)),
        q \in SUBSET (1..((MaxBlock + SaveInterval - 1) \div SaveInterval)) }

\* The run has no Squasher, Plan, Stages or Pipeline.
OnlySnapshots ==
    /\ targetExclusiveBlock = 0
    /\ info = <<>>
    /\ squashables = <<>>
    /\ effects = <<>>
    /\ calls = 0
    /\ notifier = FALSE
    /\ PlanUnused
    /\ StagesUnused
    /\ pipeline = <<>>
    /\ graph = <<>>
    /\ inflight = <<>>

\* The files of one store were listed.
InitSnapshots ==
    /\ design = "snapshots"
    /\ OnlySnapshots
    /\ snapshots \in SomeSnapshots
    /\ ret = [op |-> "Snapshots"]

LastCompletedBlockCall ==
    /\ design = "snapshots"
    /\ ret' = [op |-> "LastCompletedBlock", val |-> LastCompletedBlock(snapshots)]
    /\ UNCHANGED <<squasherVars, design, planVars, stagesVars, otherVars>>

LastCompleteSnapshotBeforeCall ==
    /\ design = "snapshots"
    /\ \E blockNum \in 0..(MaxBlock + 1) :
          ret' = [op |-> "LastCompleteSnapshotBefore", blockNum |-> blockNum,
                  val |-> LastCompleteSnapshotBefore(snapshots, blockNum)]
    /\ UNCHANGED <<squasherVars, design, planVars, stagesVars, otherVars>>

NextSnapshots ==
    \/ LastCompletedBlockCall
    \/ LastCompleteSnapshotBeforeCall

SpecSnapshots == InitSnapshots /\ [][NextSnapshots]_vars

\* ---------------------------------------------------------------- pipeline.Pipeline

\* The stores of the pipeline.
PipelineStores == {"A", "B"}

\* A nil error.
NilError == [kind |-> "nil", wrapped |-> FALSE, cause |-> ""]

\* The err argument of OnStreamTerminated: nil, or the error the stream ended with: the
\* stop block was reached, the stream ended, the request was cancelled, something else
\* failed; each as it is or wrapped in another error.
StreamErrors ==
    [ kind    : {"ErrStopBlockReached", "EOF", "Canceled", "Unknown"},
      wrapped : BOOLEAN,
      cause   : {""} ]
    \cup {NilError}

\* The error a call returns, <<>> for nil.
asReturned(err) == IF err = NilError THEN <<>> ELSE <<err>>

\* errors.Is(err, stream.ErrStopBlockReached)
isStopBlockReachedErr(err) == err.kind = "ErrStopBlockReached"

\* errors.Is(err, io.EOF)
isEOF(err) == err.kind = "EOF"

\* The failures of a store save: Save or the writer's Write fails on the at-th store saved
\* by the call.
SaveFaults == [kind : {"Save", "Write"}, at : 1..MaxFaultAt]

\* Stores.saveStoreSnapshot for one store: st.p is the pipeline, st.n the number of stores
\* saved by the call so far, st.err the error so far. A store whose partials are reported
\* is rolled to the boundary when it is a store.PartialStore.
saveStoreSnapshot(st, name, boundaryBlock, fault) ==
    LET store == st.p.stores[name]
        file  == NewRange(store.from, boundaryBlock)
        n     == st.n + 1
    IN  IF fault.kind = "Save" /\ fault.at = n
        THEN [st EXCEPT !.n = n, !.err = "Save"]
        ELSE IF fault.kind = "Write" /\ fault.at = n
        THEN [st EXCEPT !.n = n, !.err = "Write"]
        ELSE IF store.report
        THEN [st EXCEPT !.n = n,
                        !.p.written = Append(@, [name |-> name, rng |-> file, reported |-> TRUE]),
                        !.p.partialsWritten = Append(@, file),
                        !.p.stores[name].from = IF store.partial THEN boundaryBlock ELSE store.from]
        ELSE [st EXCEPT !.n = n,
                        !.p.written = Append(@, [name |-> name, rng |-> file, reported |-> FALSE])]

\* Stores.saveStoresSnapshots: the stores in the order the map hands them, skipping those
\* the request does not save, until one fails.
RECURSIVE saveStoresSnapshots(_, _, _, _)
saveStoresSnapshots(st, order, boundaryBlock, fault) ==
    IF order = <<>> \/ st.err # "nil" THEN st
    ELSE IF st.p.stores[Head(order)].skip
    THEN saveStoresSnapshots(st, Tail(order), boundaryBlock, fault)
    ELSE saveStoresSnapshots(saveStoreSnapshot(st, Head(order), boundaryBlock, fault),
                             Tail(order), boundaryBlock, fault)

\* Stores.flushStores: one saveStoresSnapshots per boundary, until one fails; orders[i] is
\* the order in which the range over the store map of the i-th saveStoresSnapshots hands
\* out the stores, taken anew for every boundary.
RECURSIVE flushStores(_, _, _, _)
flushStores(st, boundaryIntervals, orders, fault) ==
    IF boundaryIntervals = <<>> \/ st.err # "nil" THEN st
    ELSE flushStores(saveStoresSnapshots(st, Head(orders), Head(boundaryIntervals), fault),
                     Tail(boundaryIntervals), Tail(orders), fault)

\* The trailer value: the ranges of partialsWritten, each as its two block numbers.
partialRanges(partialsWritten) ==
    [ i \in 1..Len(partialsWritten) |->
        <<partialsWritten[i].StartBlock, partialsWritten[i].ExclusiveEndBlock>> ]

\* OnStreamTerminated setting the trailer before the stores are flushed.
onStreamTerminatedTrailerFirst(p, err, boundaryIntervals, orders, fault) ==
    IF isStopBlockReachedErr(err) \/ isEOF(err)
    THEN LET flushed == IF isStopBlockReachedErr(err)
                        THEN flushStores([p |-> p, n |-> 0, err |-> "nil"],
                                         boundaryIntervals, orders, fault)
                        ELSE [p |-> p, n |-> 0, err |-> "nil"]
         IN  IF flushed.err # "nil"
             THEN [ p   |-> flushed.p,
                    out |-> <<[kind |-> "Internal", wrapped |-> FALSE, cause |-> flushed.err]>> ]
             ELSE [ p   |-> [flushed.p EXCEPT !.trailer = <<partialRanges(p.partialsWritten)>>],
                    out |-> <<>> ]
    ELSE [ p |-> p, out |-> asReturned(err) ]

\* Pipeline.OnStreamTerminated: the pipeline it leaves and the error it returns, <<>> for nil.
onStreamTerminated(p, err, boundaryIntervals, orders, fault) ==
    IF isStopBlockReachedErr(err) \/ isEOF(err)
    THEN LET flushed == IF isStopBlockReachedErr(err)
                        THEN flushStores([p |-> p, n |-> 0, err |-> "nil"],
                                         boundaryIntervals, orders, fault)
                        ELSE [p |-> p, n |-> 0, err |-> "nil"]
         IN  IF flushed.err # "nil"
             THEN [ p   |-> flushed.p,
                    out |-> <<[kind |-> "Internal", wrapped |-> FALSE, cause |-> flushed.err]>> ]
             ELSE [ p   |-> [flushed.p EXCEPT !.trailer = <<partialRanges(flushed.p.partialsWritten)>>],
                    out |-> <<>> ]
    ELSE [ p |-> p, out |-> asReturned(err) ]

\* The boundaries GetStoreFlushRanges can hand to a flush at blockNum: the multiples of the
\* save interval above the last boundary flushed and up to blockNum, then blockNum itself,
\* or any part of them.
FlushRanges(lastFlushed, blockNum) ==
    LET all == SplitFrom(lastFlushed, blockNum, SaveInterval)
    IN  { [ i \in 1..Len(KeepFrom(all, K, 1)) |-> KeepFrom(all, K, 1)[i].ExclusiveEndBlock ] :
            K \in SUBSET (1..Len(all)) }

\* The orders in which one range over the store map hands out its stores.
StoreOrders(stores) ==
    { o \in [1..Cardinality(DOMAIN stores) -> DOMAIN stores] :
        \A i, j \in DOMAIN o : i # j => o[i] # o[j] }

\* SetStoreMap calls in a run of the pipeline.
MaxSetStoreMapCalls == 2

\* What a store of the map is to the request: its partials are reported in the trailer, as
\* a store.PartialStore or not, or it is saved without being reported, or not saved.
StoreKinds == {"reportPartial", "reportFull", "save", "skip"}

\* The store maps of a run: store A is reported, store B is of any kind.
StoreMapKinds ==
    { kinds \in [PipelineStores -> StoreKinds] : kinds["A"] \in {"reportPartial", "reportFull"} }

\* A store map with every store of the pipeline, each starting at block 0.
NewStoreMap(kinds) ==
    [ n \in PipelineStores |->
        [ from    |-> 0,
          report  |-> kinds[n] \in {"reportPartial", "reportFull"},
          partial |-> kinds[n] = "reportPartial",
          skip    |-> kinds[n] = "skip" ] ]

\* The run has nothing but a Pipeline.
OnlyPipeline ==
    /\ targetExclusiveBlock = 0
    /\ info = <<>>
    /\ squashables = <<>>
    /\ effects = <<>>
    /\ calls = 0
    /\ notifier = FALSE
    /\ PlanUnused
    /\ StagesUnused
    /\ snapshots = <<>>
    /\ graph = <<>>
    /\ inflight = <<>>

\* A pipeline with the Stores as NewStores builds them: the store map is empty, nothing is
\* written yet.
InitPipeline ==
    /\ design = "pipeline"
    /\ OnlyPipeline
    /\ \E stopBlockNum \in {MaxBlock - 1, MaxBlock} :
          pipeline = [ stores          |-> <<>>,
                       sets            |-> 0,
                       partialsWritten |-> <<>>,
                       written         |-> <<>>,
                       lastFlushed     |-> 0,
                       stopBlockNum    |-> stopBlockNum,
                       terminated      |-> FALSE,
                       trailer         |-> <<>> ]
    /\ ret = [op |-> "NewPipeline"]

\* Stores.SetStoreMap: the store map is replaced.
SetStoreMapCall ==
    /\ design = "pipeline"
    /\ ~pipeline.terminated
    /\ pipeline.sets < MaxSetStoreMapCalls
    /\ \E kinds \in StoreMapKinds :
          pipeline' = [pipeline EXCEPT !.stores = NewStoreMap(kinds), !.sets = @ + 1]
    /\ ret' = [op |-> "SetStoreMap"]
    /\ UNCHANGED <<squasherVars, design, planVars, stagesVars, snapshots, graph, inflight>>

\* A block below the stop block is processed and the stores are flushed at the boundaries
\* it passed; a failure ends the stream with that error, outside this model.
FlushStoresCall ==
    /\ design = "pipeline"
    /\ ~pipeline.terminated
    /\ \E blockNum \in (pipeline.lastFlushed + 1)..(pipeline.stopBlockNum - 1) :
       \E boundaryIntervals \in FlushRanges(pipeline.lastFlushed, blockNum) :
       \E orders \in [1..Len(boundaryIntervals) -> StoreOrders(pipeline.stores)] :
          LET out == flushStores([p |-> pipeline, n |-> 0, err |-> "nil"],
                                 boundaryIntervals, orders, [kind |-> "none", at |-> 0])
          IN  /\ pipeline' = [out.p EXCEPT !.lastFlushed = blockNum]
              /\ ret' = [op |-> "flushStores", blockNum |-> blockNum]
    /\ UNCHANGED <<squasherVars, design, planVars, stagesVars, snapshots, graph, inflight>>

\* Pipeline.OnStreamTerminated
OnStreamTerminatedCall ==
    /\ design = "pipeline"
    /\ ~pipeline.terminated
    /\ \E err \in StreamErrors,
          boundaryIntervals \in FlushRanges(pipeline.lastFlushed, pipeline.stopBlockNum),
          fault \in SaveFaults \cup {[kind |-> "none", at |-> 0]} :
       \E orders \in [1..Len(boundaryIntervals) -> StoreOrders(pipeline.stores)] :
          LET out == onStreamTerminated(pipeline, err, boundaryIntervals, orders, fault)
          IN  /\ pipeline' = [out.p EXCEPT !.terminated = TRUE]
              /\ ret' = [op |-> "OnStreamTerminated", err |-> err, out |-> out.out]
    /\ UNCHANGED <<squasherVars, design, planVars, stagesVars, snapshots, graph, inflight>>

NextPipeline ==
    \/ SetStoreMapCall
    \/ FlushStoresCall
    \/ OnStreamTerminatedCall

SpecPipeline == InitPipeline /\ [][NextPipeline]_vars

\* ---------------------------------------------------------------- Squasher: properties

\* The ranges merged into the store of n, in merge order.
RECURSIVE MergedOf(_)
MergedOf(fx) ==
    IF fx = <<>> THEN <<>>
    ELSE IF Head(fx).op = "merge" THEN <<Head(fx).rng>> \o MergedOf(Tail(fx))
    ELSE MergedOf(Tail(fx))

Merged(n) == MergedOf(effects[n])

\* Each merged range starts where the one before it ends.
Contiguous(rs) ==
    \A i \in 1..(Len(rs) - 1) :
        /\ rs[i].ExclusiveEndBlock = rs[i + 1].StartBlock
        /\ rs[i].StartBlock < rs[i + 1].StartBlock

\* The block the first merge of store n has to start at: the end of the complete snapshot
\* NewSquasher loaded, or the module's initial block when storage held none.
StartupBlock(n) == IF info[n] = 0 THEN ModuleInitialBlock[n] ELSE info[n]

\* C1 as stated: the merged ranges of every store are contiguous with strictly increasing
\* start, the first one starting at the module's initial block.
C1_MergesStartAtInitialBlock ==
    \A n \in StoreNames :
        /\ Contiguous(Merged(n))
        /\ Merged(n) # <<>> => Merged(n)[1].StartBlock = ModuleInitialBlock[n]

\* C1 amended: the merged ranges of every store are contiguous with strictly increasing
\* start, the first one starting at the module's initial block when no complete snapshot was
\* loaded and at the end of the loaded snapshot otherwise, the last one ending at
\* nextExpectedStartBlock.
C1_MergesContiguous ==
    \A n \in StoreNames :
        /\ Contiguous(Merged(n))
        /\ Merged(n) # <<>> =>
             /\ Merged(n)[1].StartBlock = StartupBlock(n)
             /\ Merged(n)[Len(Merged(n))].ExclusiveEndBlock = squashables[n].nextExpectedStartBlock
        /\ Merged(n) = <<>> => squashables[n].nextExpectedStartBlock = StartupBlock(n)

\* A store that started from a loaded snapshot and a store that started empty have each
\* merged several ranges.
C1_Witness ==
    /\ info["A"] # 0
    /\ Len(Merged("A")) >= 2
    /\ Len(Merged("B")) >= 2
    /\ calls = MaxSquashCalls

\* C2: a complete snapshot ending at e is written exactly after the merge of a fragment that
\* ends at e with e % storeSaveInterval = 0: every merge ending on a boundary is followed by
\* the write, no merge ending off a boundary is, and no write happens otherwise.
C2_WriteIffBoundary ==
    \A n \in StoreNames :
        \A i \in 1..Len(effects[n]) :
            LET ev == effects[n][i] IN
            /\ ev.op = "merge" =>
                 /\ i < Len(effects[n])
                 /\ (ev.rng.ExclusiveEndBlock % SaveInterval = 0) <=>
                      (effects[n][i + 1] = [op |-> "WriteState", blk |-> ev.rng.ExclusiveEndBlock])
            /\ ev.op = "WriteState" =>
                 /\ i > 1
                 /\ effects[n][i - 1].op = "merge"
                 /\ effects[n][i - 1].rng.ExclusiveEndBlock = ev.blk
                 /\ ev.blk % SaveInterval = 0

\* One store merged a fragment ending on a boundary and one ending off it.
C2_Witness ==
    \E n \in StoreNames :
        /\ \E i \in 1..Len(Merged(n)) : Merged(n)[i].ExclusiveEndBlock % SaveInterval = 0
        /\ \E i \in 1..Len(Merged(n)) : Merged(n)[i].ExclusiveEndBlock % SaveInterval # 0
        /\ \E i \in 1..Len(Merged(n)) : Merged(n)[i].StartBlock % SaveInterval # 0

\* C3 as stated: every write of a complete snapshot at a boundary e is followed by
\* notifier.Notify(M, e), whether or not e is the target.
C3_NotifyOnEveryWrite ==
    \A n \in StoreNames :
        \A i \in 1..Len(effects[n]) :
            effects[n][i].op = "WriteState" =>
                /\ i < Len(effects[n])
                /\ effects[n][i + 1] = [op |-> "Notify", blk |-> effects[n][i].blk]

\* C8: no range is merged into a store twice.
C8_MergedAtMostOnce ==
    \A n \in StoreNames :
        \A i, j \in 1..Len(Merged(n)) : Merged(n)[i] = Merged(n)[j] => i = j

\* A fragment was submitted again after it had been merged: it was merged once and the
\* second copy is in the list.
C8_Witness ==
    /\ ret.op = "Squash"
    /\ ret.err = "nil"
    /\ ret.mod \in StoreNames
    /\ Split(ret.rng, SaveInterval) = <<ret.rng>>
    /\ \E i \in 1..Len(Merged(ret.mod)) : Merged(ret.mod)[i] = ret.rng
    /\ \E i \in 1..Len(squashables[ret.mod].ranges) : squashables[ret.mod].ranges[i] = ret.rng

\* C9 as stated: a fragment submitted a second time is dropped: among the ranges the store
\* still has to merge, the list holds none that is already merged and none twice.
C9_DuplicateDropped ==
    \A n \in StoreNames :
        LET rs == SelectSeq(squashables[n].ranges,
                            LAMBDA r : r.StartBlock >= StartupBlock(n)) IN
        /\ \A i \in 1..Len(rs) : \A j \in 1..Len(Merged(n)) : rs[i] # Merged(n)[j]
        /\ \A i, j \in 1..Len(rs) : rs[i] = rs[j] => i = j

\* The list is sorted.
Sorted(rs) == \A i \in 1..(Len(rs) - 1) : ~RangeLess(rs[i + 1], rs[i])

\* The split ranges of a call that the store keeps.
Kept(n, rng) ==
    SelectSeq(Split(rng, SaveInterval),
              LAMBDA br : br.ExclusiveEndBlock > squashables[n].StoreInitialBlock)

\* What a Squash call that returned no error did to store n, called with range rng.
C10_Step(n, rng) ==
    LET sq  == squashables[n]
        new == SubSeq(Merged(n)', Len(Merged(n)) + 1, Len(Merged(n)'))
    IN  \* what was merged before stays merged
        /\ SubSeq(Merged(n)', 1, Len(Merged(n))) = Merged(n)
        \* a fragment above the next expected block is kept and nothing is merged
        /\ rng.StartBlock > sq.nextExpectedStartBlock =>
             /\ new = <<>>
             /\ \A i \in 1..Len(Kept(n, rng)) :
                  \E j \in 1..Len(sq.ranges') : sq.ranges'[j] = Kept(n, rng)[i]
        \* the ranges merged by this call start at the next expected block and ascend
        /\ new # <<>> => new[1].StartBlock = sq.nextExpectedStartBlock
        /\ Contiguous(new)
        \* each of them was in the list or arrives with this call
        /\ \A i \in 1..Len(new) :
             \/ \E j \in 1..Len(sq.ranges) : sq.ranges[j] = new[i]
             \/ \E j \in 1..Len(Kept(n, rng)) : Kept(n, rng)[j] = new[i]
        \* no range is lost
        /\ Len(sq.ranges') + Len(new) = Len(sq.ranges) + Len(Kept(n, rng))
        \* the list is sorted and its head is not the next expected range
        /\ Sorted(sq.ranges')
        /\ sq.ranges' # <<>> => Head(sq.ranges').StartBlock # sq.nextExpectedStartBlock'

\* C10: a fragment that starts above nextExpectedStartBlock is kept in the sorted list without
\* being merged; the call that brings the missing earlier fragment merges it first and then
\* the kept fragments, in ascending start order, until the head of the list is no longer the
\* next expected range.
C10_BufferThenDrain ==
    [][ \A n \in StoreNames, rng \in RequestRanges(targetExclusiveBlock) :
            (calls' = calls + 1 /\ ret'.mod = n /\ ret'.rng = rng /\ ret'.err = "nil")
                => C10_Step(n, rng) ]_vars

\* Two calls: the later fragment first, then the earlier one, whose call merged both.
C10_Witness ==
    /\ calls = 2
    /\ ret.op = "Squash"
    /\ ret.err = "nil"
    /\ ret.mod \in StoreNames
    /\ Len(Merged(ret.mod)) = 2
    /\ Merged(ret.mod)[1] = ret.rng
    /\ Merged(ret.mod)[2].StartBlock = ret.rng.ExclusiveEndBlock
    /\ IsEmpty(squashables[ret.mod])

\* The number of calls of notifier.Notify for store n so far.
Notified(fx) == Len(SelectSeq(fx, LAMBDA ev : ev.op = "Notify"))

\* targetReached of store n turns true in this step.
BecomesReached(n) == ~squashables[n].targetReached /\ squashables[n].targetReached'

\* A merge of this step sets nextExpectedStartBlock of store n to the target.
MergeSetsNextToTarget(n) ==
    /\ squashables[n].nextExpectedStartBlock # targetExclusiveBlock
    /\ squashables[n].nextExpectedStartBlock' = targetExclusiveBlock

\* C11 as stated: targetReached turns true exactly in the step in which a merge sets
\* nextExpectedStartBlock to targetExclusiveBlock.
C11_ReachedExactlyWhenNextIsTarget ==
    [][ \A n \in StoreNames : BecomesReached(n) <=> MergeSetsNextToTarget(n) ]_vars

\* What the code does about targetReached when storage fails: it turns true exactly in the
\* step in which a merge sets nextExpectedStartBlock to targetExclusiveBlock and the write
\* of that merge's snapshot did not fail; the notifier of a Squasher that has one is called
\* once, for the target, as the last thing done to the store in that step, and in no other
\* step; targetReached is never true while nextExpectedStartBlock is not the target; once
\* true it stays true.
C11_ReachedOnCompletedMergeToTarget ==
    [][ \A n \in StoreNames :
          /\ BecomesReached(n) <=> (MergeSetsNextToTarget(n) /\ ret'.err # "WriteState")
          /\ (BecomesReached(n) /\ notifier) =>
                /\ Notified(effects[n]') = Notified(effects[n]) + 1
                /\ effects[n]'[Len(effects[n]')] = [op |-> "Notify", blk |-> targetExclusiveBlock]
          /\ (BecomesReached(n) /\ ~notifier) => Notified(effects[n]') = 0
          /\ ~BecomesReached(n) => Notified(effects[n]') = Notified(effects[n])
          /\ squashables[n].targetReached' =>
                squashables[n].nextExpectedStartBlock' = targetExclusiveBlock
          /\ squashables[n].targetReached => squashables[n].targetReached'
      ]_vars

\* The last call merged the final range of a store that has merged several ranges: the
\* target is reached and the notifier was called.
C11_Witness ==
    /\ ret.op = "Squash"
    /\ ret.err = "nil"
    /\ ret.mod \in StoreNames
    /\ squashables[ret.mod].targetReached
    /\ Len(Merged(ret.mod)) >= 2
    /\ Merged(ret.mod)[Len(Merged(ret.mod))].ExclusiveEndBlock = targetExclusiveBlock
    /\ notifier
    /\ Notified(effects[ret.mod]) = 1

\* The target is reached by a Squasher built without notifier: nobody was told.
C11_NoNotifierWitness ==
    /\ ret.op = "Squash"
    /\ ret.err = "nil"
    /\ ret.mod \in StoreNames
    /\ squashables[ret.mod].targetReached
    /\ ~notifier
    /\ Notified(effects[ret.mod]) = 0

\* C12: StoresReady returns nil exactly when every Squashable has reached its target and has
\* an empty list; otherwise its error names every module that has not reached its target and
\* every module that still has ranges in its list, and no other module.
C12_StoresReadyIffAllReachedAndEmpty ==
    ret.op = "StoresReady" =>
        /\ (ret.errs = {}) <=>
              \A n \in StoreNames :
                  squashables[n].targetReached /\ squashables[n].ranges = <<>>
        /\ \A n \in StoreNames :
              /\ (<<n, "target not reached">> \in ret.errs) <=> ~squashables[n].targetReached
              /\ (<<n, "missing ranges">> \in ret.errs) <=> squashables[n].ranges # <<>>
        /\ \A e \in ret.errs : e[1] \in StoreNames

\* StoresReady returned nil after both stores were merged up to the target.
C12_Witness ==
    /\ ret.op = "StoresReady"
    /\ ret.errs = {}
    /\ \A n \in StoreNames : Merged(n) # <<>>

\* Range rng has a sub-range that starts before the initial block of module n.
StartsBeforeInitialBlock(n, rng) ==
    \E i \in 1..Len(Split(rng, SaveInterval)) :
        Split(rng, SaveInterval)[i].StartBlock < ModuleInitialBlock[n]

\* C14: Squash returns an error for a range with a sub-range that starts before the
\* module's initial block, and for a module name the Squasher does not know; in both cases
\* nothing is merged and the list, nextExpectedStartBlock and targetReached of every
\* Squashable stay as they were. No other call returns one of these two errors.
C14_RejectedCallsChangeNothing ==
    [][ calls' = calls + 1 =>
          /\ (ret'.mod \notin StoreNames) <=> (ret'.err = "not_found")
          /\ (ret'.mod \in StoreNames /\ StartsBeforeInitialBlock(ret'.mod, ret'.rng))
                <=> (ret'.err = "prior_to_initial_block")
          /\ ret'.err \in {"not_found", "prior_to_initial_block"} =>
                /\ squashables' = squashables
                /\ effects' = effects
      ]_vars

\* A store that has merged a range and holds another in its list was sent a range starting
\* before its initial block.
C14_Witness ==
    /\ ret.op = "Squash"
    /\ ret.err = "prior_to_initial_block"
    /\ ret.rng.StartBlock < ModuleInitialBlock[ret.mod]
    /\ ret.rng.ExclusiveEndBlock > ModuleInitialBlock[ret.mod]
    /\ Merged(ret.mod) # <<>>
    /\ squashables[ret.mod].ranges # <<>>

\* A module name the Squasher does not know was sent a range after a store had merged one.
C14_UnknownWitness ==
    /\ ret.op = "Squash"
    /\ ret.err = "not_found"
    /\ \E n \in StoreNames : Merged(n) # <<>>

\* The i-th effect on store n is a Notify that no WriteState of the same block precedes.
NotifyWithoutSnapshot(n, i) ==
    /\ effects[n][i].op = "Notify"
    /\ ~ \E j \in 1..(i - 1) :
            /\ effects[n][j].op = "WriteState"
            /\ effects[n][j].blk = effects[n][i].blk

\* C23: the complete snapshot of store M ending at block b is written before the notifier
\* is told that M is ready up to b, and no such notification is sent when the write failed:
\* every Notify(M, b) comes after a WriteState(M, b) that succeeded.
C23_SnapshotWrittenBeforeNotify ==
    design = "squasher" =>
        \A n \in StoreNames : \A i \in 1..Len(effects[n]) : ~NotifyWithoutSnapshot(n, i)

\* The same for the blocks on a save-interval boundary only.
C23_BoundarySnapshotWrittenBeforeNotify ==
    design = "squasher" =>
        \A n \in StoreNames : \A i \in 1..Len(effects[n]) :
            ~ (NotifyWithoutSnapshot(n, i) /\ effects[n][i].blk % SaveInterval = 0)

\* C30: once a fragment ending on a save-interval boundary is merged and the complete
\* snapshot written, the fragment's partial file is deleted: every WriteState(e) of a store
\* comes with a DeletePartialFile(e) of the fragment just merged.
C30_PartialDeletedAfterSnapshot ==
    design = "squasher" =>
        \A n \in StoreNames : \A i \in 1..Len(effects[n]) :
            effects[n][i].op = "WriteState" =>
                \E j \in 1..Len(effects[n]) :
                    /\ effects[n][j].op = "DeletePartialFile"
                    /\ effects[n][j].blk = effects[n][i].blk

\* The list of store n once the split ranges of a call with range rng are added to it.
Cumulated(n, rng) == SortRanges(squashables[n].ranges \o Kept(n, rng))

\* What a Squash call on store n with range rng left behind when it returned the
\* cancellation of the context.
C31_Step(n, rng) ==
    LET sq    == squashables[n]
        old   == Len(effects[n])
        new   == SubSeq(effects[n]', old + 1, Len(effects[n]'))
        k     == Len(MergedOf(new))
        whole == squash(sq, effects[n], n, rng, targetExclusiveBlock, notifier)
    IN  \* what was done before the call stays
        /\ SubSeq(effects[n]', 1, old) = effects[n]
        \* the call did, in order, part of what it does when the context is not cancelled,
        \* and every merge it did is followed by its write or its delete
        /\ Len(effects[n]') <= Len(whole.fx)
        /\ SubSeq(whole.fx, 1, Len(effects[n]')) = effects[n]'
        /\ new # <<>> => new[Len(new)].op # "merge"
        \* the ranges it did not merge are in the list, in order
        /\ sq.ranges' = SubSeq(Cumulated(n, rng), k + 1, Len(Cumulated(n, rng)))
        /\ \A i \in 1..k : MergedOf(new)[i] = Cumulated(n, rng)[i]
        \* nextExpectedStartBlock is the end of the last merged range
        /\ sq.nextExpectedStartBlock' =
             IF k = 0 THEN sq.nextExpectedStartBlock ELSE MergedOf(new)[k].ExclusiveEndBlock

\* C31: a Squash call that sees the context cancelled returns the cancellation error and
\* merges nothing more: the ranges not merged yet stay in the list, nextExpectedStartBlock is
\* the end of the last range merged entirely, and no snapshot is written and no
\* notification sent after the cancellation was seen.
C31_CancelledSquashMergesNothingMore ==
    [][ \A n \in StoreNames, rng \in RequestRanges(targetExclusiveBlock) :
            (calls' = calls + 1 /\ ret'.mod = n /\ ret'.rng = rng /\ ret'.err = "context canceled")
                => C31_Step(n, rng) ]_vars

\* A call merged one range, saw the cancellation and left the range behind it in the list.
C31_Witness ==
    /\ design = "squasher"
    /\ ret.op = "Squash"
    /\ ret.err = "context canceled"
    /\ Merged(ret.mod) # <<>>
    /\ Merged(ret.mod)[Len(Merged(ret.mod))].StartBlock = ret.rng.StartBlock
    /\ squashables[ret.mod].ranges # <<>>
    /\ Head(squashables[ret.mod].ranges).StartBlock = squashables[ret.mod].nextExpectedStartBlock

\* C32: NewSquasher seeds nextExpectedStartBlock of each Squashable with the end of the
\* store's complete snapshot when storage has one, that snapshot being the store's first
\* image, and with the module's initial block when it has none; the ranges reported for the
\* store are then merged from that block on in ascending order, whatever the order they are
\* reported in.
C32_SeededFromLatestCompleteSnapshot ==
    design = "squasher" =>
        \A n \in StoreNames :
            LET seed == IF info[n] # 0 THEN info[n] ELSE ModuleInitialBlock[n] IN
            /\ squashables[n].builder = seed
            /\ Merged(n) = <<>> => squashables[n].nextExpectedStartBlock = seed
            /\ Merged(n) # <<>> => Merged(n)[1].StartBlock = seed
            /\ \A i, j \in 1..Len(Merged(n)) :
                  i < j => Merged(n)[i].ExclusiveEndBlock <= Merged(n)[j].StartBlock

\* Storage had a complete snapshot of A; the range behind the snapshot was reported after a
\* later one, and the call that reported it merged both, the earlier first.
C32_Witness ==
    /\ design = "squasher"
    /\ info["A"] = SaveInterval
    /\ ret.op = "Squash"
    /\ ret.mod = "A"
    /\ ret.err = "nil"
    /\ ret.rng.StartBlock = info["A"]
    /\ Len(Merged("A")) = 2
    /\ Merged("A")[1] = ret.rng
    /\ calls = 2

\* Storage had no snapshot of B: its first merge starts at the module's initial block.
C32_NoSnapshotWitness ==
    /\ design = "squasher"
    /\ info["B"] = 0
    /\ Merged("B") # <<>>
    /\ squashables["B"].builder = ModuleInitialBlock["B"]

\* The Squashable of store n is consistent: its list is sorted, every range of the list
\* starts at or after nextExpectedStartBlock, no merged range is in the list, and
\* nextExpectedStartBlock is the end of the last merged range.
Consistent(n) ==
    LET sq == squashables[n] IN
    /\ Sorted(sq.ranges)
    /\ \A i \in 1..Len(sq.ranges) : sq.ranges[i].StartBlock >= sq.nextExpectedStartBlock
    /\ \A i \in 1..Len(sq.ranges) : \A j \in 1..Len(Merged(n)) : sq.ranges[i] # Merged(n)[j]
    /\ Merged(n) # <<>> =>
          sq.nextExpectedStartBlock = Merged(n)[Len(Merged(n))].ExclusiveEndBlock

\* C35: whenever Squashable.squash returns, with success or with an error of LoadFrom, Merge
\* or WriteState or with the cancellation, the Squashable is consistent.
C35_ConsistentOnReturn ==
    (design = "squasher" /\ ret.op = "Squash" /\ ret.mod \in StoreNames) => Consistent(ret.mod)

\* The same for the calls that return after WriteState failed.
C35_ConsistentAfterWriteFailure ==
    (design = "squasher" /\ ret.op = "Squash" /\ ret.err = "WriteState") => Consistent(ret.mod)

\* The same for the calls that return the cancellation or an error of LoadFrom or Merge, on
\* a store whose list holds no range from before its next expected block.
C35_ConsistentAfterOtherFailure ==
    (/\ design = "squasher"
     /\ ret.op = "Squash"
     /\ ret.err \in {"context canceled", "LoadFrom", "Merge"}
     /\ \A i \in 1..Len(squashables[ret.mod].ranges) :
           squashables[ret.mod].ranges[i].StartBlock >= squashables[ret.mod].nextExpectedStartBlock)
        => Consistent(ret.mod)

\* C36: a store whose complete snapshot in storage already ends at targetExclusiveBlock, for
\* which no range is missing and Squash is never called, is ready for StoresReady: it gets
\* no 'target not reached' message.
C36_CompleteStoreIsReady ==
    (design = "squasher" /\ ret.op = "StoresReady") =>
        \A n \in StoreNames :
            (/\ info[n] = targetExclusiveBlock
             /\ effects[n] = <<>>
             /\ squashables[n].ranges = <<>>)
                => <<n, "target not reached">> \notin ret.errs

\* ---------------------------------------------------------------- Squasher: concurrent calls: properties

\* The worker is between Lock and Unlock of a Squash call on this store.
InSquash(w, n) == inflight.squash[w] # <<>> /\ inflight.squash[w][1].mod = n

\* No two workers are inside a Squash call on the same store.
NoOverlap ==
    \A n \in StoreNames, w1, w2 \in Workers : (InSquash(w1, n) /\ InSquash(w2, n)) => w1 = w2

\* The store is merged up to the target and its list holds no range.
ReallyComplete(n) ==
    /\ squashables[n].nextExpectedStartBlock = targetExclusiveBlock
    /\ IsEmpty(squashables[n])

\* This step is the return of a StoresReady call, with no error.
StoresReadyReturnsOk ==
    /\ inflight.reader # <<>>
    /\ inflight'.reader = <<>>
    /\ ret'.op = "StoresReady"
    /\ ret'.errs = {}

\* C40: under every interleaving of the workers' Squash calls with a StoresReady call that
\* takes no lock, two merges on the same Squashable never overlap, and StoresReady returns
\* no error only in a state where every Squashable is merged up to targetExclusiveBlock and
\* has no pending range.
C40_ReadyOnlyWhenCompleteUnderConcurrency ==
    [][design = "concurrent" =>
         /\ NoOverlap'
         /\ StoresReadyReturnsOk => \A n \in StoreNames : ReallyComplete(n)']_vars

\* C40, the part on the lock: the one mutex of the Squasher keeps all Squash calls apart,
\* those on different stores too.
C40_MergesNeverOverlap ==
    design = "concurrent" =>
        \A w1, w2 \in Workers :
            (inflight.squash[w1] # <<>> /\ inflight.squash[w2] # <<>>) => w1 = w2

\* C40, the part on targetReached: it is written once, after the merge that ends at the
\* target, so a StoresReady that returns no error does so with every store merged up to
\* the target.
C40_ReadyOnlyWhenMergedToTarget ==
    [][(design = "concurrent" /\ StoresReadyReturnsOk) =>
         \A n \in StoreNames :
            /\ squashables'[n].targetReached
            /\ squashables'[n].nextExpectedStartBlock = targetExclusiveBlock]_vars

\* The steps of a worker between Lock and Unlock make up Squashable.squash.
C40_StepsMakeSquash ==
    [][\A w \in Workers :
         (design = "concurrent" /\ inflight.squash[w] # <<>> /\ inflight'.squash[w] = <<>>) =>
            LET at  == inflight.squash[w][1]
                out == squash(at.before.sq, at.before.fx, at.mod, at.rng, targetExclusiveBlock, notifier)
            IN  /\ squashables'[at.mod] = out.sq
                /\ effects'[at.mod] = out.fx
                /\ out.err = "nil"]_vars

\* A StoresReady call is in the middle of its loop while a worker is inside a Squash call.
C40_InterleavedWitness ==
    /\ design = "concurrent"
    /\ inflight.reader # <<>>
    /\ Len(inflight.reader[1].todo) = 1
    /\ \E w \in Workers : inflight.squash[w] # <<>> /\ inflight.squash[w][1].pc = "pop"

\* ---------------------------------------------------------------- Squasher: runs that tile

\* The segments between the block store n starts up at and the target.
Pieces(n) == SplitFrom(StartupBlock(n), targetExclusiveBlock, SaveInterval)

\* The segments submitted for store n so far: merged, or in its list.
Submitted(n) ==
    { Merged(n)[i] : i \in 1..Len(Merged(n)) }
    \cup { squashables[n].ranges[i] : i \in 1..Len(squashables[n].ranges) }

\* Range r is made of segments of store n that were not reported before.
Unreported(n, r) ==
    \A i \in 1..Len(Split(r, SaveInterval)) :
        /\ \E j \in 1..Len(Pieces(n)) : Pieces(n)[j] = Split(r, SaveInterval)[i]
        /\ Split(r, SaveInterval)[i] \notin Submitted(n)

\* A worker reports a range made of segments of store n that were not reported before.
TileCall ==
    \E n \in StoreNames, r \in RequestRanges(targetExclusiveBlock) :
        /\ Unreported(n, r)
        /\ SquashBody(n, r, NoFault)

\* Some segment of some store is still to be reported.
TilesLeft ==
    \E n \in StoreNames, r \in RequestRanges(targetExclusiveBlock) : Unreported(n, r)

NextTiling ==
    \/ TileCall
    \/ StoresReady

\* Runs in which the ranges reported for each store, in any order, end up tiling the blocks
\* from its start-up block to the target, each block reported once, without storage error;
\* StoresReady is called again after the last of them.
SpecTiling ==
    /\ Init
    /\ [][NextTiling]_vars
    /\ ([]<>(~TilesLeft) \/ []<><<TileCall>>_vars)
    /\ WF_vars(StoresReady)

\* Every store has merged up to the target and its list is empty.
AllSquashed ==
    \A n \in StoreNames :
        /\ squashables[n].nextExpectedStartBlock = targetExclusiveBlock
        /\ squashables[n].targetReached
        /\ squashables[n].ranges = <<>>

\* C13: when the ranges reported for every store tile its blocks from the start-up block to
\* the target, eventually every store has merged up to the target, its list is empty, and
\* StoresReady returns nil.
C13_TiledEventuallyReady ==
    <>[](AllSquashed /\ ret = [op |-> "StoresReady", errs |-> {}])

\* The same for runs in which every store starts up below the target.
C13_TiledFromBelowTargetEventuallyReady ==
    (\A n \in StoreNames : StartupBlock(n) < targetExclusiveBlock)
        => <>[](AllSquashed /\ ret = [op |-> "StoresReady", errs |-> {}])

\* ---------------------------------------------------------------- work.Plan: properties

\* The jobs that are ready or have been returned by NextJob.
Available == { plan.readyJobs[i] : i \in 1..Len(plan.readyJobs) } \cup DOMAIN returned

\* The jobs still waiting.
Waiting == { plan.waitingJobs[i] : i \in 1..Len(plan.waitingJobs) }

\* C4: a job is in readyJobs, or has been returned by NextJob, only if every module it
\* requires is ready up to the job's start block; a waiting job with a required module
\* below its start block is never promoted.
C4_AvailableJobsHaveDependenciesMet ==
    \A job \in Available :
        \A m \in job.requiredModules :
            readyUpToBlock(plan.modulesReadyUpToBlock, m) >= job.RequestRange.StartBlock

\* A job requiring A and B that starts beyond every block known at construction has
\* been promoted and returned.
C4_Witness ==
    \E job \in DOMAIN returned :
        /\ job.requiredModules = {"A", "B"}
        /\ job.RequestRange.StartBlock > SaveInterval

\* Scenario 2 of the specification: stores A and B both start at block 0, nothing on disk.
Scenario2 ==
    /\ design = "plan"
    /\ \A m \in {"A", "B"} :
        /\ plan.ModulesStateMap[m].ModuleInitialBlock = 0
        /\ plan.ModulesStateMap[m].InitialCompleteFile = <<>>

\* C5: in scenario 2 the job of B that starts at block 0 is neither ready nor returned
\* as long as A has not been reported ready up to the end of that job's range.
C5_BWaitsForA ==
    Scenario2 =>
        \A job \in Available :
            (job.ModuleName = "B" /\ job.RequestRange.StartBlock = 0)
                => readyUpToBlock(plan.modulesReadyUpToBlock, "A") >= job.RequestRange.ExclusiveEndBlock

\* C6: modulesReadyUpToBlock[m] never decreases; MarkDependencyComplete(m, b) leaves it
\* unchanged when b is below the current value and sets it to b otherwise, creating the
\* entry of a module that had none.
C6_ReadyUpToBlockMonotonic ==
    [][ \A m \in PlanModuleNames \cup {UnknownName} :
          LET before == readyUpToBlock(plan.modulesReadyUpToBlock, m)
              after  == readyUpToBlock(plan'.modulesReadyUpToBlock, m)
          IN  /\ after >= before
              /\ (ret'.op = "MarkDependencyComplete" /\ ret'.mod = m) =>
                    /\ m \in DOMAIN plan'.modulesReadyUpToBlock
                    /\ after = (IF ret'.blk < before THEN before ELSE ret'.blk)
              /\ (ret'.op = "MarkDependencyComplete" /\ ret'.mod # m) =>
                    /\ after = before
                    /\ (m \in DOMAIN plan'.modulesReadyUpToBlock) = (m \in DOMAIN plan.modulesReadyUpToBlock)
              /\ ret'.op = "NextJob" =>
                    plan'.modulesReadyUpToBlock = plan.modulesReadyUpToBlock
      ]_vars

\* The last call reported a block below the value already recorded for the module, and
\* a module unknown at construction has got an entry.
C6_Witness ==
    /\ ret.op = "MarkDependencyComplete"
    /\ ret.blk < readyUpToBlock(plan.modulesReadyUpToBlock, ret.mod)
    /\ UnknownName \in DOMAIN plan.modulesReadyUpToBlock
    /\ plan.modulesReadyUpToBlock[UnknownName] > 0

\* C15: NextJob returns the first job of readyJobs, which no ready job exceeds in priority,
\* and removes it, or returns no job when readyJobs is empty; moreComing is true exactly
\* when waitingJobs is non-empty or readyJobs is non-empty after the removal; waitingJobs
\* and modulesReadyUpToBlock are left unchanged.
C15_NextJobReturnsFirstReady ==
    [][ ret'.op = "NextJob" =>
          /\ plan'.waitingJobs = plan.waitingJobs
          /\ plan'.modulesReadyUpToBlock = plan.modulesReadyUpToBlock
          /\ ret'.moreComing <=> (plan.waitingJobs # <<>> \/ plan'.readyJobs # <<>>)
          /\ IF plan.readyJobs = <<>>
             THEN /\ ret'.job = <<>>
                  /\ plan'.readyJobs = <<>>
                  /\ returned' = returned
             ELSE /\ ret'.job = <<plan.readyJobs[1]>>
                  /\ plan'.readyJobs = SubSeq(plan.readyJobs, 2, Len(plan.readyJobs))
                  /\ \A i \in 1..Len(plan.readyJobs) :
                        plan.readyJobs[i].priority <= plan.readyJobs[1].priority
                  /\ plan.readyJobs[1] \in DOMAIN returned'
      ]_vars

\* NextJob returned the last ready job while no job was waiting, a promoted job being
\* among the jobs returned.
C15_Witness ==
    /\ design = "plan"
    /\ ret.op = "NextJob"
    /\ ret.job # <<>>
    /\ ~ret.moreComing
    /\ \E job \in DOMAIN returned : job.requiredModules # {} /\ job.RequestRange.StartBlock > 0

\* NextJob found no ready job while jobs were waiting.
C15_EmptyWitness ==
    /\ design = "plan"
    /\ ret = [op |-> "NextJob", job |-> <<>>, moreComing |-> TRUE]

\* The list is in the order of readyJobs: descending priority, then ascending start block.
SortedJobs(jobs) ==
    \A i \in 1..(Len(jobs) - 1) :
        \/ jobs[i].priority > jobs[i + 1].priority
        \/ /\ jobs[i].priority = jobs[i + 1].priority
           /\ jobs[i].RequestRange.StartBlock <= jobs[i + 1].RequestRange.StartBlock

\* The jobs of the list that have the priority and the start block of job j, in list order.
SameRank(jobs, j) ==
    SelectSeq(jobs, LAMBDA x : x.priority = j.priority
                               /\ x.RequestRange.StartBlock = j.RequestRange.StartBlock)

\* out holds the jobs of in, as many times each, in the order of readyJobs, jobs of equal
\* priority and start block in the order they have in in.
StableSortOf(out, in) ==
    /\ Len(out) = Len(in)
    /\ SortedJobs(out)
    /\ \A i \in 1..Len(in) : SameRank(out, in[i]) = SameRank(in, in[i])
    /\ \A i \in 1..Len(out) : SameRank(out, out[i]) = SameRank(in, out[i])

\* C16: prioritize leaves in readyJobs the jobs it held, sorted by descending priority,
\* jobs of equal priority by ascending start block, jobs equal in both in their previous
\* order; and readyJobs of a plan is in this order before and after every call.
C16_PrioritizeStableSort ==
    [][ /\ ret'.op = "prioritize" => StableSortOf(plan'.readyJobs, plan.readyJobs)
        /\ design = "plan" => SortedJobs(plan.readyJobs) /\ SortedJobs(plan'.readyJobs)
        /\ ret'.op = "MarkDependencyComplete" =>
              StableSortOf(plan'.readyJobs,
                           plan.readyJobs \o
                           SelectSeq(plan.waitingJobs,
                                     LAMBDA j : \A m \in j.requiredModules :
                                         readyUpToBlock(plan'.modulesReadyUpToBlock, m)
                                             >= j.RequestRange.StartBlock))
      ]_vars

\* prioritize was called on a list out of order that held two different jobs of the same
\* priority and start block.
C16_Witness ==
    /\ ret.op = "prioritize"
    /\ Len(plan.readyJobs) = MaxJobs
    /\ \E i \in 1..(Len(plan.readyJobs) - 1) :
          /\ plan.readyJobs[i] # plan.readyJobs[i + 1]
          /\ plan.readyJobs[i].priority = plan.readyJobs[i + 1].priority
          /\ plan.readyJobs[i].RequestRange = plan.readyJobs[i + 1].RequestRange
          /\ plan.readyJobs[i].ModuleName = "B"
    /\ plan.readyJobs[1].priority > plan.readyJobs[Len(plan.readyJobs)].priority

\* The jobs of the plan, ready or waiting.
PlanJobs ==
    { plan.readyJobs[i] : i \in 1..Len(plan.readyJobs) }
        \cup { plan.waitingJobs[i] : i \in 1..Len(plan.waitingJobs) }

\* The priority the dependency depth alone gives to a module.
depthPriority(m) ==
    calculateHighestDependencyDepth(PlanModuleNames, PlanAncestors)
        - ancestorsDepth(m, PlanAncestors) + 1

\* C17: every job has priority highestDependencyDepth - depthOfModule + 1, so the jobs of
\* one module all have the same priority, and no job has a lower priority than a job of a
\* module that depends on its module.
C17_PriorityIsDepthOnly ==
    design = "plan" =>
        /\ \A j \in PlanJobs : j.priority = depthPriority(j.ModuleName)
        /\ \A j, k \in PlanJobs : j.ModuleName = k.ModuleName => j.priority = k.priority
        /\ \A j, k \in PlanJobs :
              j.ModuleName \in ancestorsOf(k.ModuleName) => j.priority >= k.priority

\* The request ranges of the jobs the plan holds for module m, ready jobs first.
AllJobRanges(m) ==
    LET jobs == SelectSeq(plan.readyJobs \o plan.waitingJobs, LAMBDA j : j.ModuleName = m)
    IN  [ i \in 1..Len(jobs) |-> jobs[i].RequestRange ]

\* A list of ranges without the first occurrence of r.
RECURSIVE WithoutOne(_, _)
WithoutOne(rs, r) ==
    IF rs = <<>> THEN <<>>
    ELSE IF Head(rs) = r THEN Tail(rs)
    ELSE <<Head(rs)>> \o WithoutOne(Tail(rs), r)

\* A list of ranges without one occurrence of each range of gone.
RECURSIVE WithoutEach(_, _)
WithoutEach(rs, gone) ==
    IF gone = <<>> THEN rs ELSE WithoutEach(WithoutOne(rs, Head(gone)), Tail(gone))

\* The request ranges of the jobs of module m that are not the jobs of its missing
\* complete ranges.
PartialJobRanges(m) ==
    WithoutEach(AllJobRanges(m), plan.ModulesStateMap[m].MissingCompleteRanges)

\* Every missing complete range of every module has a job of its own, with the whole range.
CompleteRangesHaveJobs ==
    \A m \in PlanModuleNames :
        Len(PartialJobRanges(m)) + Len(plan.ModulesStateMap[m].MissingCompleteRanges)
            = Len(AllJobRanges(m))

\* The request ranges of the jobs built from the missing partial ranges of module m.
JobRanges(m) == LET rs == PartialJobRanges(m) IN { rs[i] : i \in 1..Len(rs) }

\* The blocks of a set of ranges.
BlocksOf(rs) == UNION { r.StartBlock..(r.ExclusiveEndBlock - 1) : r \in rs }

\* The missing partial ranges of module m in the storage state the plan was built from.
MissingRanges(m) ==
    LET pm == plan.ModulesStateMap[m].PartialsMissing IN { pm[i] : i \in 1..Len(pm) }

\* The jobs built from the missing partial ranges of every module are pairwise disjoint and
\* cover these ranges exactly.
JobsTileMissing ==
    \A m \in PlanModuleNames :
        /\ \A r, s \in JobRanges(m) : r # s => BlocksOf({r}) \cap BlocksOf({s}) = {}
        /\ BlocksOf(JobRanges(m)) = BlocksOf(MissingRanges(m))
        /\ Cardinality(JobRanges(m)) = Len(PartialJobRanges(m))

\* C18 (as stated): the jobs built for a store from its missing ranges are pairwise
\* disjoint, cover the missing ranges exactly, and are cut at the multiples of
\* subrequestSplit: no job reaches over a multiple of subrequestSplit.
C18_JobsCutAtSplitMultiples ==
    (design = "jobs" /\ ret.op = "BuildNewPlan") =>
        /\ JobsTileMissing
        /\ \A m \in PlanModuleNames : \A r \in JobRanges(m) :
              (r.ExclusiveEndBlock - 1) \div SubrequestSplit = r.StartBlock \div SubrequestSplit

\* C18 (amended): the jobs built for a store from its partialsMissing ranges are pairwise
\* disjoint and cover these ranges exactly; each job is a run of contiguous missing ranges,
\* at most subrequestSplit blocks long, and a run is cut only where the next missing range
\* would make it longer than subrequestSplit. Each missing complete range has one more job,
\* with the whole range.
C18_JobsAreBucketsOfMissing ==
    (design = "jobs" /\ ret.op = "BuildNewPlan") =>
        /\ JobsTileMissing
        /\ CompleteRangesHaveJobs
        /\ \A m \in PlanModuleNames : \A r \in JobRanges(m) :
              /\ \/ r.ExclusiveEndBlock - r.StartBlock <= SubrequestSplit
                 \/ r \in MissingRanges(m)
              /\ \E s \in MissingRanges(m) : s.StartBlock = r.StartBlock
              /\ \E s \in MissingRanges(m) : s.ExclusiveEndBlock = r.ExclusiveEndBlock
              /\ \A s \in JobRanges(m) :
                    s.StartBlock = r.ExclusiveEndBlock =>
                        \E x \in MissingRanges(m) :
                            /\ x.StartBlock = s.StartBlock
                            /\ x.ExclusiveEndBlock - r.StartBlock > SubrequestSplit

\* A plan was built for a store that misses segments on both sides of a present one and
\* for a store whose contiguous missing segments were joined over a multiple of
\* subrequestSplit, and for a store whose run of missing segments was cut.
C18_Witness ==
    /\ design = "jobs"
    /\ ret.op = "BuildNewPlan"
    /\ \E m \in PlanModuleNames : \E r, s \in JobRanges(m) : r.ExclusiveEndBlock < s.StartBlock
    /\ \E m \in PlanModuleNames : \E r \in JobRanges(m) :
          /\ r \notin MissingRanges(m)
          /\ (r.ExclusiveEndBlock - 1) \div SubrequestSplit # r.StartBlock \div SubrequestSplit
    /\ \E m \in PlanModuleNames : \E r, s \in JobRanges(m) : r.ExclusiveEndBlock = s.StartBlock
    /\ Len(plan.ModulesStateMap["A"].MissingCompleteRanges) = 2
    /\ Len(AllJobRanges("A")) > 2

\* The jobs of a list, as a set.
JobSet(jobs) == { jobs[i] : i \in 1..Len(jobs) }

\* C25: after MarkDependencyComplete no waiting job has all its dependencies met: every
\* waiting job whose dependencies are met with the updated modulesReadyUpToBlock has been
\* moved to readyJobs, and the jobs with an unmet dependency are all still waiting.
C25_NoWaitingJobWithDependenciesMet ==
    [][ ret'.op = "MarkDependencyComplete" =>
          LET ready == plan'.modulesReadyUpToBlock
              met   == { j \in JobSet(plan.waitingJobs) : allDependenciesMet(ready, j) }
          IN  /\ \A j \in JobSet(plan'.waitingJobs) : ~allDependenciesMet(ready, j)
              /\ plan'.waitingJobs = SelectSeq(plan.waitingJobs, LAMBDA j : j \notin met)
              /\ JobSet(plan'.readyJobs) = JobSet(plan.readyJobs) \cup met
              /\ Len(plan'.readyJobs) + Len(plan'.waitingJobs)
                    = Len(plan.readyJobs) + Len(plan.waitingJobs)
      ]_vars

\* MarkDependencyComplete(m, b) has left in readyJobs two jobs that require m and start at
\* b, beyond what m had at construction.
C25_Witness ==
    /\ design = "plan"
    /\ ret.op = "MarkDependencyComplete"
    /\ ret.blk > SaveInterval
    /\ \E j, k \in JobSet(plan.readyJobs) :
          /\ j # k
          /\ ret.mod \in j.requiredModules
          /\ ret.mod \in k.requiredModules
          /\ j.RequestRange.StartBlock = ret.blk
          /\ k.RequestRange.StartBlock = ret.blk

\* MarkDependencyComplete(m, b) has left waiting a job that requires m and starts at or
\* below b, another module it requires being behind, and a job requiring m is ready.
C25_StillWaitingWitness ==
    /\ design = "plan"
    /\ ret.op = "MarkDependencyComplete"
    /\ \E j \in JobSet(plan.waitingJobs) :
          /\ ret.mod \in j.requiredModules
          /\ j.RequestRange.StartBlock <= ret.blk
    /\ \E k \in JobSet(plan.readyJobs) :
          /\ ret.mod \in k.requiredModules
          /\ k.RequestRange.StartBlock > 0

\* C26: at plan construction modulesReadyUpToBlock[m] is, for every store module m, the
\* end block of its initial complete file when it has one and the module's initial block
\* when it has none; a plan with no modules gets an empty map.
C26_ReadyMapFromCompleteFileOrInitialBlock ==
    (design \in {"plan", "jobs", "readyMap"}
        /\ ret.op \in {"BuildNewPlan", "initModulesReadyUpToBlock"}) =>
        /\ DOMAIN plan.modulesReadyUpToBlock = DOMAIN plan.ModulesStateMap
        /\ \A m \in DOMAIN plan.ModulesStateMap :
              LET file == plan.ModulesStateMap[m].InitialCompleteFile IN
              /\ Len(file) = 0 =>
                    plan.modulesReadyUpToBlock[m] = plan.ModulesStateMap[m].ModuleInitialBlock
              /\ Len(file) > 0 => plan.modulesReadyUpToBlock[m] = file[1]

\* The map was built for a store with a complete file and a store without any that starts
\* above block 0.
C26_Witness ==
    /\ design = "readyMap"
    /\ ret.op = "initModulesReadyUpToBlock"
    /\ DOMAIN plan.ModulesStateMap = {"A", "B"}
    /\ plan.ModulesStateMap["A"].InitialCompleteFile # <<>>
    /\ plan.ModulesStateMap["B"].InitialCompleteFile = <<>>
    /\ plan.ModulesStateMap["B"].ModuleInitialBlock > 0
    /\ plan.modulesReadyUpToBlock["A"] > plan.modulesReadyUpToBlock["B"]

\* The map was built for a plan with no modules.
C26_NoModulesWitness ==
    /\ design = "readyMap"
    /\ ret.op = "initModulesReadyUpToBlock"
    /\ DOMAIN plan.ModulesStateMap = {}
    /\ DOMAIN plan.modulesReadyUpToBlock = {}

\* The longest chain m, a1 in ancestors(m), a2 in ancestors(a1), ... counted in modules,
\* found by trying every sequence of distinct modules.
LongestChainFrom(m) ==
    LET Chains == { c \in UNION { [1..n -> GraphModules] : n \in 1..Cardinality(GraphModules) } :
                      /\ c[1] = m
                      /\ \A i \in 1..(Len(c) - 1) : c[i + 1] \in graph[c[i]] }
    IN  MaxOf({ Len(c) : c \in Chains })

\* C27: on every acyclic ancestor relation ancestorsDepth(m) is 1 for a module without
\* ancestors and 1 + the greatest depth of its ancestors otherwise, that is the number of
\* modules on the longest chain of ancestors from m, and calculateHighestDependencyDepth
\* is the greatest depth over all modules, whatever the output module.
C27_DepthIsLongestAncestorChain ==
    (design = "graph" /\ ret.op = "ancestorsDepth") =>
        /\ ret.depth = LongestChainFrom(ret.outputModule)
        /\ graph[ret.outputModule] = {} => ret.depth = 1
        /\ graph[ret.outputModule] # {} =>
              ret.depth = 1 + MaxOf({ LongestChainFrom(a) : a \in graph[ret.outputModule] })
        /\ ret.highestDepth = MaxOf({ LongestChainFrom(m) : m \in GraphModules })

\* The output module has several ancestors of different depths and is not the deepest
\* module of the graph.
C27_Witness ==
    /\ design = "graph"
    /\ ret.op = "ancestorsDepth"
    /\ Cardinality(graph[ret.outputModule]) > 1
    /\ \E a, b \in graph[ret.outputModule] : LongestChainFrom(a) < LongestChainFrom(b)
    /\ ret.depth < ret.highestDepth

\* No job is in the list twice.
NoDuplicate(jobs) == \A i, j \in 1..Len(jobs) : jobs[i] = jobs[j] => i = j

\* No job is in two places among waitingJobs, readyJobs and the jobs NextJob has returned,
\* nor twice in one.
InOnePlace ==
    /\ NoDuplicate(plan.waitingJobs)
    /\ NoDuplicate(plan.readyJobs)
    /\ \A x \in DOMAIN returned : returned[x] = 1
    /\ JobSet(plan.waitingJobs) \cap JobSet(plan.readyJobs) = {}
    /\ JobSet(plan.waitingJobs) \cap DOMAIN returned = {}
    /\ JobSet(plan.readyJobs) \cap DOMAIN returned = {}

\* The jobs of the plan: those in its two lists and those NextJob has returned.
EveryJob == JobSet(plan.waitingJobs) \cup JobSet(plan.readyJobs) \cup DOMAIN returned

\* The job had an unmet dependency when the plan was built: it started in waitingJobs.
StartedWaiting(job) ==
    ~allDependenciesMet(initModulesReadyUpToBlock(plan.ModulesStateMap), job)

\* C39: over any sequence of NextJob and MarkDependencyComplete calls every job of the plan
\* is in exactly one of waitingJobs, readyJobs and the jobs NextJob has returned: no call
\* loses a job, adds one or duplicates one; a job only moves from waitingJobs to readyJobs
\* and from readyJobs to returned, never back.
C39_JobsInExactlyOnePlace ==
    [][ design = "plan" =>
          /\ InOnePlace
          /\ InOnePlace'
          /\ EveryJob' = EveryJob
          /\ JobSet(plan.waitingJobs') \subseteq JobSet(plan.waitingJobs)
          /\ JobSet(plan.readyJobs') \subseteq JobSet(plan.readyJobs) \cup JobSet(plan.waitingJobs)
          /\ DOMAIN returned \subseteq DOMAIN returned'
          /\ DOMAIN returned' \subseteq DOMAIN returned \cup JobSet(plan.readyJobs)
      ]_vars

\* A job that started in waitingJobs was promoted by the last call and is in readyJobs,
\* another is still waiting, and NextJob has returned a third.
C39_Witness ==
    /\ design = "plan"
    /\ ret.op = "MarkDependencyComplete"
    /\ \E job \in JobSet(plan.readyJobs) : StartedWaiting(job)
    /\ plan.waitingJobs # <<>>
    /\ DOMAIN returned # {}

\* Every job of a plan that had waiting jobs has been returned.
C39_AllReturnedWitness ==
    /\ design = "plan"
    /\ plan.waitingJobs = <<>>
    /\ plan.readyJobs = <<>>
    /\ \E job \in DOMAIN returned : StartedWaiting(job)

\* ---------------------------------------------------------------- orchestrator.Snapshots: properties

\* The complete snapshots listed.
CompleteSet == { snapshots.Completes[i] : i \in 1..Len(snapshots.Completes) }

\* C22: LastCompleteSnapshotBefore(blockNum) returns the complete snapshot with the
\* greatest end block <= blockNum, nothing when there is none; the partial files have no
\* part in the result.
C22_LastCompleteBeforeIsGreatestAtOrBelow ==
    (design = "snapshots" /\ ret.op = "LastCompleteSnapshotBefore") =>
        LET fit == { c \in CompleteSet : c.ExclusiveEndBlock <= ret.blockNum } IN
        IF fit = {} THEN ret.val = NilRange
        ELSE /\ ret.val # NilRange
             /\ ret.val[1] \in fit
             /\ \A c \in fit : c.ExclusiveEndBlock <= ret.val[1].ExclusiveEndBlock

\* The lookup block is the end of a complete snapshot, a later complete snapshot and a
\* partial file beyond the lookup block exist, and the snapshot ending on the block is
\* returned.
C22_Witness ==
    /\ design = "snapshots"
    /\ ret.op = "LastCompleteSnapshotBefore"
    /\ Len(snapshots.Completes) > 1
    /\ \E c \in CompleteSet : c.ExclusiveEndBlock > ret.blockNum
    /\ \E i \in 1..Len(snapshots.Partials) : snapshots.Partials[i].StartBlock >= ret.blockNum
    /\ ret.val # NilRange
    /\ ret.val[1].ExclusiveEndBlock = ret.blockNum

\* Every complete snapshot ends after the lookup block: nothing is returned.
C22_NoneWitness ==
    /\ design = "snapshots"
    /\ ret.op = "LastCompleteSnapshotBefore"
    /\ Len(snapshots.Completes) > 0
    /\ Len(snapshots.Partials) > 0
    /\ ret.val = NilRange

\* ---------------------------------------------------------------- pipeline.Pipeline: properties

\* The ranges written for the stores that report their partials, in the order written.
ReportedWrites(p) ==
    LET w == SelectSeq(p.written, LAMBDA x : x.reported) IN
    [ i \in 1..Len(w) |-> <<w[i].rng.StartBlock, w[i].rng.ExclusiveEndBlock>> ]

\* C24 as stated, for every argument: OnStreamTerminated returns nil exactly when the error
\* is stop-block-reached and the final flush of the stores succeeded, or end-of-stream, and
\* then sets the trailer to the partial ranges written, in the order written; a failed
\* flush gives an internal error; any other error is returned unchanged, with no trailer.
C24_NilExactlyOnGracefulEndForAnyArgument ==
    [][ (design = "pipeline" /\ ret'.op = "OnStreamTerminated") =>
          LET err      == ret'.err
              graceful == err.kind \in {"ErrStopBlockReached", "EOF"}
              flushed  == Len(pipeline'.written) - Len(pipeline.written)
          IN  /\ ret'.out = <<>> <=>
                    /\ graceful
                    /\ pipeline'.trailer # <<>>
              /\ ret'.out = <<>> =>
                    /\ pipeline'.trailer = <<ReportedWrites(pipeline')>>
                    /\ err.kind = "EOF" => flushed = 0
              /\ (graceful /\ ret'.out # <<>>) =>
                    /\ err.kind = "ErrStopBlockReached"
                    /\ ret'.out[1].kind = "Internal"
                    /\ ret'.out[1].cause \in {"Save", "Write"}
                    /\ pipeline'.trailer = <<>>
              /\ ~graceful =>
                    /\ ret'.out = <<err>>
                    /\ pipeline'.trailer = <<>>
                    /\ pipeline'.written = pipeline.written
                    /\ pipeline'.partialsWritten = pipeline.partialsWritten
      ]_vars

\* C24: given an error that is not nil, OnStreamTerminated returns nil exactly when the
\* error is stop-block-reached and the final flush of the stores succeeded, or
\* end-of-stream, and then sets the trailer to the partial ranges written, in the order
\* written; a failed flush gives an internal error; any other error is returned unchanged,
\* with no trailer. Given nil it returns nil, writes nothing and sets no trailer.
C24_NilExactlyOnGracefulEnd ==
    [][ (design = "pipeline" /\ ret'.op = "OnStreamTerminated") =>
          LET err      == ret'.err
              graceful == err.kind \in {"ErrStopBlockReached", "EOF"}
              flushed  == Len(pipeline'.written) - Len(pipeline.written)
          IN  /\ err # NilError =>
                    (ret'.out = <<>> <=>
                        /\ graceful
                        /\ pipeline'.trailer # <<>>)
              /\ (err # NilError /\ ret'.out = <<>>) =>
                    /\ pipeline'.trailer = <<ReportedWrites(pipeline')>>
                    /\ err.kind = "EOF" => flushed = 0
              /\ (graceful /\ ret'.out # <<>>) =>
                    /\ err.kind = "ErrStopBlockReached"
                    /\ ret'.out[1].kind = "Internal"
                    /\ ret'.out[1].cause \in {"Save", "Write"}
                    /\ pipeline'.trailer = <<>>
              /\ ~graceful =>
                    /\ ret'.out = asReturned(err)
                    /\ pipeline'.trailer = <<>>
                    /\ pipeline'.written = pipeline.written
                    /\ pipeline'.partialsWritten = pipeline.partialsWritten
      ]_vars

\* The final flush saved two boundaries with the stores in one order at the first and in
\* the other order at the second, and the trailer lists the ranges as written.
C24_OrderPerBoundaryWitness ==
    /\ design = "pipeline"
    /\ ret.op = "OnStreamTerminated"
    /\ ret.out = <<>>
    /\ Len(pipeline.written) = 4
    /\ pipeline.written[1].name = "A"
    /\ pipeline.written[2].name = "B"
    /\ pipeline.written[3].name = "B"
    /\ pipeline.written[4].name = "A"
    /\ pipeline.written[2].rng.ExclusiveEndBlock < pipeline.written[3].rng.ExclusiveEndBlock
    /\ pipeline.trailer = <<ReportedWrites(pipeline)>>

\* OnStreamTerminated was given nil after partials were written: nil comes back, with no
\* trailer.
C24_NilArgumentWitness ==
    /\ design = "pipeline"
    /\ ret.op = "OnStreamTerminated"
    /\ ret.err = NilError
    /\ ret.out = <<>>
    /\ pipeline.trailer = <<>>
    /\ pipeline.partialsWritten # <<>>

\* The stream ended on the stop block, wrapped in another error; the final flush wrote a
\* partial that the trailer lists after one written while the stream ran, and nil was
\* returned.
C24_Witness ==
    /\ design = "pipeline"
    /\ ret.op = "OnStreamTerminated"
    /\ ret.err.kind = "ErrStopBlockReached"
    /\ ret.err.wrapped
    /\ ret.out = <<>>
    /\ pipeline.trailer # <<>>
    /\ Len(pipeline.trailer[1]) > 1
    /\ pipeline.trailer[1][Len(pipeline.trailer[1])][2] = pipeline.stopBlockNum
    /\ Len(pipeline.written) > Len(pipeline.partialsWritten)

\* The final flush failed after a store was written: an internal error, no trailer.
C24_FlushFailedWitness ==
    /\ design = "pipeline"
    /\ ret.op = "OnStreamTerminated"
    /\ ret.out # <<>>
    /\ ret.out[1].kind = "Internal"
    /\ pipeline.trailer = <<>>
    /\ pipeline.partialsWritten # <<>>
    /\ pipeline.partialsWritten[Len(pipeline.partialsWritten)].ExclusiveEndBlock = pipeline.stopBlockNum

\* The stream was cancelled: the error comes back as it was.
C24_OtherErrorWitness ==
    /\ design = "pipeline"
    /\ ret.op = "OnStreamTerminated"
    /\ ret.err.kind = "Canceled"
    /\ ret.out = <<ret.err>>
    /\ pipeline.partialsWritten # <<>>

\* ---------------------------------------------------------------- block.Segmenter: properties

\* floor(x / d), by its definition.
FloorOf(x, d) == CHOOSE q \in 0..x : q * d <= x /\ x < (q + 1) * d

\* ceil(x / d), by its definition.
CeilOf(x, d) == CHOOSE q \in 0..x : (q - 1) * d < x /\ x <= q * d

\* C19: for every interval I >= 1 and bounds b0 <= bN, count() is
\* floor(bN/I) - floor(b0/I) + 1.
C19_CountFormula ==
    (design = "segmenter" /\ ret.op = "Count") =>
        ret.val = FloorOf(segmenter.exclusiveEndBlock, segmenter.interval)
                  - FloorOf(segmenter.initialBlock, segmenter.interval) + 1

\* Count was called on a segmenter with an unaligned initial block, an aligned end block
\* and several segments.
C19_Witness ==
    /\ design = "segmenter"
    /\ ret.op = "Count"
    /\ segmenter.interval > 1
    /\ segmenter.initialBlock % segmenter.interval # 0
    /\ segmenter.exclusiveEndBlock % segmenter.interval = 0
    /\ ret.val > 2

\* range(k) for an index k after the first: [base + k*I, min(base + (k+1)*I, bN)) with
\* base = floor(b0/I)*I.
LaterRangeFormula ==
    (design = "segmenter" /\ ret.op = "Range" /\ 0 < ret.idx /\ ret.idx < Count(segmenter)) =>
        LET I    == segmenter.interval
            base == FloorOf(segmenter.initialBlock, I) * I
        IN  ret.val = <<NewRange(base + ret.idx * I,
                                 Min(base + (ret.idx + 1) * I, segmenter.exclusiveEndBlock))>>

\* C20 (as stated): range(0) is [b0, min(ceil(b0/I)*I, bN)) and range(k), 0 < k < count(),
\* is [base + k*I, min(base + (k+1)*I, bN)) with base = floor(b0/I)*I, for b0 aligned on I
\* or not.
C20_RangeFormulaCeil ==
    /\ (design = "segmenter" /\ ret.op = "Range" /\ ret.idx = 0) =>
          ret.val = <<NewRange(segmenter.initialBlock,
                               Min(CeilOf(segmenter.initialBlock, segmenter.interval)
                                       * segmenter.interval,
                                   segmenter.exclusiveEndBlock))>>
    /\ LaterRangeFormula

\* C20 (amended): range(0) is [b0, min(floor(b0/I)*I + I, bN)) and range(k),
\* 0 < k < count(), is [base + k*I, min(base + (k+1)*I, bN)) with base = floor(b0/I)*I,
\* for b0 aligned on I or not.
C20_RangeFormulaFloor ==
    /\ (design = "segmenter" /\ ret.op = "Range" /\ ret.idx = 0) =>
          ret.val = <<NewRange(segmenter.initialBlock,
                               Min(FloorOf(segmenter.initialBlock, segmenter.interval)
                                       * segmenter.interval + segmenter.interval,
                                   segmenter.exclusiveEndBlock))>>
    /\ LaterRangeFormula

\* Range(0) was called on a segmenter whose initial block is aligned on the interval and
\* below the end block.
C20_Witness ==
    /\ design = "segmenter"
    /\ ret.op = "Range"
    /\ ret.idx = 0
    /\ segmenter.interval > 1
    /\ segmenter.initialBlock > 0
    /\ segmenter.initialBlock % segmenter.interval = 0
    /\ segmenter.initialBlock < segmenter.exclusiveEndBlock

\* Range(0) was called on a segmenter whose initial block is not aligned on the interval.
C20_UnalignedWitness ==
    /\ design = "segmenter"
    /\ ret.op = "Range"
    /\ ret.idx = 0
    /\ segmenter.initialBlock % segmenter.interval # 0
    /\ segmenter.initialBlock + 1 < segmenter.exclusiveEndBlock

\* Range(k) was called for the last segment, cut short by the end block.
C20_LaterWitness ==
    /\ design = "segmenter"
    /\ ret.op = "Range"
    /\ ret.idx > 0
    /\ ret.idx = Count(segmenter) - 1
    /\ ret.val # NilRange
    /\ ret.val[1].ExclusiveEndBlock - ret.val[1].StartBlock \in 1..(segmenter.interval - 1)

\* Block n is the start block of the range r (given as Range returns it) or lies in it.
StartsOrHolds(r, n) ==
    /\ r # NilRange
    /\ \/ n = r[1].StartBlock
       \/ r[1].StartBlock <= n /\ n < r[1].ExclusiveEndBlock

\* C21: for every valid segment index k (0 <= k < count()), indexForBlock maps the start
\* block of range(k), and every block inside range(k), back to k.
C21_IndexForBlockInvertsRange ==
    (design = "segmenter" /\ ret.op = "IndexForBlock") =>
        \A k \in 0..(Count(segmenter) - 1) :
            StartsOrHolds(Range(segmenter, k), ret.blockNum) => ret.val = k

\* IndexForBlock was called on a block inside, but not at the start of, a later segment of
\* a segmenter with an unaligned initial block.
C21_Witness ==
    /\ design = "segmenter"
    /\ ret.op = "IndexForBlock"
    /\ segmenter.initialBlock % segmenter.interval # 0
    /\ ret.val > 0
    /\ ret.val < Count(segmenter)
    /\ ret.blockNum > Range(segmenter, ret.val)[1].StartBlock
    /\ ret.blockNum < Range(segmenter, ret.val)[1].ExclusiveEndBlock

\* IndexForBlock was called on the start block of the first segment, the unaligned initial
\* block.
C21_FirstWitness ==
    /\ design = "segmenter"
    /\ ret.op = "IndexForBlock"
    /\ segmenter.initialBlock % segmenter.interval # 0
    /\ ret.blockNum = segmenter.initialBlock
    /\ ret.val = 0

\* C33: the segmenter rejects with a panic a segment index at or after Count, in Range and
\* in IsPartial, and a block at or after the exclusive end block, in IndexForBlock.
C33_OutOfRangePanics ==
    design = "segmenter" =>
        /\ (ret.op \in {"Range", "IsPartial"} /\ ret.idx >= Count(segmenter)) => ret.panics
        /\ (ret.op = "IndexForBlock" /\ ret.blockNum >= segmenter.exclusiveEndBlock) => ret.panics

\* The same for IsPartial alone, which also panics on a negative index and on no other.
C33_IsPartialOutOfRangePanics ==
    (design = "segmenter" /\ ret.op = "IsPartial") =>
        (ret.panics <=> (ret.idx >= Count(segmenter) \/ ret.idx < 0))

\* C34: for every segmenter with b0 < bN and every index k in [0, Count), Range(k) is a
\* range with start < exclusiveEnd, also when bN is a multiple of the interval.
C34_RangesNonEmpty ==
    (/\ design = "segmenter"
     /\ segmenter.initialBlock < segmenter.exclusiveEndBlock
     /\ ret.op = "Range"
     /\ 0 <= ret.idx
     /\ ret.idx < Count(segmenter)) =>
        /\ ret.val # NilRange
        /\ ret.val[1].StartBlock < ret.val[1].ExclusiveEndBlock

\* The consequence for Stages.NextJob: every range handed out holds at least one block.
C34_NextJobRangesNonEmpty ==
    (design = "stages" /\ ret.op = "NextJob" /\ ret.rng # <<>>) =>
        ret.rng[1].StartBlock < ret.rng[1].ExclusiveEndBlock

\* ---------------------------------------------------------------- stage.Stages: properties

\* The state of a unit in a matrix, a unit without cell yet being Pending.
StateOf(states, u) ==
    IF u.Segment - segmentOffset + 1 \in 1..Len(states)
    THEN states[u.Segment - segmentOffset + 1][u.Stage + 1]
    ELSE "Pending"

\* The units of the request: every stage of every segment of the segmenter.
RequestUnits ==
    [Segment : FirstIndex(segmenter)..LastIndex(segmenter), Stage : StageIndexes]

\* The unit is at or after its stage's first segment.
InStage(u) == u.Segment >= FirstIndex(stages[u.Stage + 1].segmenter)

\* Every lower stage of the previous segment is Completed in the matrix.
LowerStagesCompleted(states, u) ==
    \A i \in 0..(u.Stage - 1) :
        StateOf(states, [Segment |-> u.Segment - 1, Stage |-> i]) = "Completed"

\* The units NextJob may return: Pending, in their stage, and with their dependencies
\* completed.
Candidates ==
    { u \in RequestUnits :
        /\ StateOf(segmentStates, u) = "Pending"
        /\ InStage(u)
        /\ \/ u.Stage = 0
           \/ u.Segment <= FirstIndex(stages[u.Stage + 1].segmenter)
           \/ LowerStagesCompleted(segmentStates, u) }

\* C28: among the units that are Pending, not before their stage's first segment and with
\* dependencies completed, NextJob returns the one in the lowest segment and, there, of the
\* highest stage; it makes that unit Scheduled and changes no other unit; without such a
\* unit it returns no job and changes no unit.
C28_NextJobLowestSegmentHighestStage ==
    [][ (design = "stages" /\ ret'.op = "NextJob") =>
          /\ \A u \in RequestUnits \cup AllocatedUnits :
                (ret'.unit = <<>> \/ u # ret'.unit[1]) =>
                    StateOf(segmentStates', u) = StateOf(segmentStates, u)
          /\ IF Candidates = {}
             THEN ret'.unit = <<>>
             ELSE /\ ret'.unit # <<>>
                  /\ ret'.unit[1] \in Candidates
                  /\ \A u \in Candidates :
                        \/ ret'.unit[1].Segment < u.Segment
                        \/ /\ ret'.unit[1].Segment = u.Segment
                           /\ ret'.unit[1].Stage >= u.Stage
                  /\ StateOf(segmentStates', ret'.unit[1]) = "Scheduled"
      ]_vars

\* NextJob returned a unit of a lower stage beyond the first segment while the higher
\* stage of that segment was Pending with dependencies not completed, and a unit of a later
\* segment could have been returned as well.
C28_Witness ==
    /\ design = "stages"
    /\ ret.op = "NextJob"
    /\ ret.unit # <<>>
    /\ ret.unit[1].Segment > FirstIndex(segmenter)
    /\ ret.unit[1].Stage < Len(stages) - 1
    /\ StateOf(segmentStates, [Segment |-> ret.unit[1].Segment, Stage |-> Len(stages) - 1]) = "Pending"
    /\ \E u \in Candidates : u.Segment > ret.unit[1].Segment

\* NextJob returned no job while units were Pending, none of them with its dependencies
\* completed.
C28_NoJobWitness ==
    /\ design = "stages"
    /\ ret.op = "NextJob"
    /\ ret.unit = <<>>
    /\ Candidates = {}
    /\ \E u \in RequestUnits : StateOf(segmentStates, u) = "Pending" /\ InStage(u)

\* The unit is of a stage above the lowest and in a segment above its stage's first.
HasDependencies(u) ==
    /\ u.Stage > 0
    /\ u.Segment > FirstIndex(stages[u.Stage + 1].segmenter)

\* C29: NextJob schedules a unit (segment s, stage t) with t > 0 and s above stage t's
\* first segment only if every lower stage 0..t-1 of segment s-1 is Completed; a lower
\* stage that is Scheduled, PartialPresent or Merging keeps the unit unschedulable.
C29_ScheduledOnlyAfterLowerStagesCompleted ==
    [][ (design = "stages" /\ ret'.op = "NextJob" /\ ret'.unit # <<>>) =>
          (HasDependencies(ret'.unit[1]) => LowerStagesCompleted(segmentStates, ret'.unit[1]))
      ]_vars

\* NextJob has returned a unit of the last stage in a segment above the stage's first, the
\* lower stages of the segment before being Completed.
C29_Witness ==
    /\ design = "stages"
    /\ ret.op = "NextJob"
    /\ ret.unit # <<>>
    /\ ret.unit[1].Stage = Len(stages) - 1
    /\ HasDependencies(ret.unit[1])
    /\ LowerStagesCompleted(segmentStates, ret.unit[1])

\* NextJob has returned no job while a unit was Pending whose lower stages of the segment
\* before were all handed out, one of them Merging, none of them Pending.
C29_BlockedWitness ==
    /\ design = "stages"
    /\ ret.op = "NextJob"
    /\ ret.unit = <<>>
    /\ \E u \in RequestUnits :
          /\ HasDependencies(u)
          /\ StateOf(segmentStates, u) = "Pending"
          /\ \A i \in 0..(u.Stage - 1) :
                StateOf(segmentStates, [Segment |-> u.Segment - 1, Stage |-> i]) # "Pending"
          /\ \E i \in 0..(u.Stage - 1) :
                StateOf(segmentStates, [Segment |-> u.Segment - 1, Stage |-> i]) = "Merging"

\* C37: every read or write of the matrix by NextJob and dependenciesCompleted is inside
\* the allocated matrix, for every segmenter, every segmentOffset at or below the
\* segmenter's first index and every sequence of NextJob calls: no NextJob call panics.
C37_MatrixAccessInBounds ==
    (design = "stages" /\ ret.op = "NextJob") => ~ret.panics

\* The same for the Stages whose segmenter starts in the segment of segmentOffset or in
\* the next one.
C37_MatrixAccessInBoundsNearOffset ==
    (design = "stages" /\ ret.op = "NextJob" /\ FirstIndex(segmenter) - segmentOffset <= 1)
        => ~ret.panics

\* Every unit of the request that is not before its stage's first segment has been
\* returned by NextJob.
AllUnitsReturned ==
    \A u \in RequestUnits : InStage(u) => u \in DOMAIN returned

\* C38: when NextJob is called again and again and every unit it returns is eventually
\* marked Completed, every unit whose segment is between the segmenter's first and last
\* index and not before its stage's first segment is eventually returned by NextJob. So
\* once the run is over, NextJob having returned no job with no unit on its way to
\* Completed and none that can be scheduled, every such unit has been returned.
C38_EveryUnitReturnedWhenRunIsOver ==
    (design = "stages" /\ ~StagesCanStep) => AllUnitsReturned

\* The same when no stage starts in a later segment than a stage above it.
C38_EveryUnitReturnedWhenRunIsOverAndStagesStartInOrder ==
    (/\ design = "stages"
     /\ ~StagesCanStep
     /\ \A i, j \in 1..Len(stages) :
           i < j => FirstIndex(stages[i].segmenter) <= FirstIndex(stages[j].segmenter))
        => AllUnitsReturned

\* The runs that are over with every unit returned.
C38_RunIsOverWitness ==
    design = "stages" /\ ~StagesCanStep /\ AllUnitsReturned /\ Len(stages) = 3

\* The eventual return of every such unit as a temporal property of the runs that go on
\* as long as a call or a transition can change something.
C38_EveryUnitEventuallyReturned ==
    design = "stages" => <>AllUnitsReturned

\* The same for the Stages in which no stage starts in a later segment than a stage above it.
C38_EveryUnitEventuallyReturnedWhenStagesStartInOrder ==
    (/\ design = "stages"
     /\ \A i, j \in 1..Len(stages) :
           i < j => FirstIndex(stages[i].segmenter) <= FirstIndex(stages[j].segmenter))
        => <>AllUnitsReturned

\* NextJob returns no job only when every Pending unit of the request that is not before
\* its stage's first segment waits for a lower stage of the previous segment that is not
\* Completed.
C38_NoJobOnlyWhenAllWait ==
    (design = "stages" /\ ret.op = "NextJob" /\ ret.unit = <<>> /\ ~ret.panics) =>
        \A u \in RequestUnits :
            (StateOf(segmentStates, u) = "Pending" /\ InStage(u)) =>
                /\ HasDependencies(u)
                /\ ~LowerStagesCompleted(segmentStates, u)

\* ---------------------------------------------------------------- scheduling: properties

\* The jobs of the plan that are waiting or ready.
Queued == Waiting \cup { plan.readyJobs[i] : i \in 1..Len(plan.readyJobs) }

\* C7: no unit of work is handed out twice. NextJob returns each job of the plan, and each
\* unit of the matrix, at most once; two returned jobs never share a module and a range;
\* a returned job is no longer queued in the plan, and a returned unit is no longer Pending.
C7_NoUnitHandedOutTwice ==
    /\ \A x \in DOMAIN returned : returned[x] <= 1
    /\ design = "plan" =>
          \A x \in DOMAIN returned :
              /\ \A y \in DOMAIN returned :
                    (x.ModuleName = y.ModuleName /\ x.RequestRange = y.RequestRange) => x = y
              /\ \A q \in Queued :
                    ~(x.ModuleName = q.ModuleName /\ x.RequestRange = q.RequestRange)
    /\ design = "stages" =>
          \A u \in DOMAIN returned : GetState(segmentStates, segmentOffset, u) # "Pending"

\* Stages.NextJob has handed out units of every stage, some of them are completed, and
\* the last call found nothing left to hand out while units were still being worked on.
C7_Witness ==
    /\ design = "stages"
    /\ ret = [op |-> "NextJob", unit |-> <<>>, rng |-> <<>>, panics |-> FALSE]
    /\ \A stageIdx \in StageIndexes : \E u \in DOMAIN returned : u.Stage = stageIdx
    /\ \E u \in DOMAIN returned : GetState(segmentStates, segmentOffset, u) = "Completed"
    /\ \E u \in DOMAIN returned : GetState(segmentStates, segmentOffset, u) = "Scheduled"

\* The plan's NextJob has returned jobs of every module and has no job left.
C7_PlanWitness ==
    /\ design = "plan"
    /\ \A m \in PlanModuleNames : \E job \in DOMAIN returned : job.ModuleName = m
    /\ Queued = {}
    /\ ret.op = "NextJob"

====
